---- MODULE Spec2Model ----
(***************************************************************************)
(* Model of the sports-proxy request pipeline:                             *)
(*   - ToolHandler.processToolCalls / _enrichToolArguments /               *)
(*     _executeSingleTool           (src/src/intelligence/toolHandler.js)  *)
(*   - MCPCoordinator.callTool      (src/unnamed/part_002, second class)   *)
(*   - CacheManager.get / set       (src/unnamed/part_003)                 *)
(*   - OpenAIResponseProcessor.processStreamingRequest                     *)
(*                                  (src/src/openai/responseProcessor.js)  *)
(***************************************************************************)
EXTENDS Integers, Sequences, FiniteSets, TLC

\* ------------------------------------------------------------------------
\* Bounds
\* ------------------------------------------------------------------------
\* longest list of tool calls handed to processToolCalls / the streamer
MaxCalls == 2

\* most chunks JSON.stringify(result, null, 2) contributes to split(' ')
MaxJsonWords == 1

\* ------------------------------------------------------------------------
\* Program constants
\* ------------------------------------------------------------------------
\* CacheManager constructor defaults (seconds)
hotTTL == 10

coldTTL == 300

\* ------------------------------------------------------------------------
\* Values
\* ------------------------------------------------------------------------
ResolverTools == {"resolve_team", "resolve_player"}

\* the keys of endpointMap in MCPCoordinator._routeAndExecuteTool
KnownTools ==
  {"resolve_team", "resolve_player", "get_team_info", "get_player_stats",
   "get_team_roster", "get_schedule", "get_standings", "get_live_game"}

\* argument keys that occur in the modelled calls, in lexicographic order
\* (the order Object.keys(args).sort() produces)
KeyOrder == <<"name", "playerId", "teamId">>

NoArgs == [k \in {} |-> ""]

OneArg(k, v) == [x \in {k} |-> v]

Call(n, a) == [name |-> n, arguments |-> a]

\* the tool calls the inputs are drawn from: both resolvers, tools that
\* require a team / a player with the id key absent, present and truthy,
\* present and falsy (""), a tool that requires no entity, and a tool name
\* with no backend mapping
CallSet ==
  { Call("resolve_team", OneArg("name", "yankees")),
    Call("resolve_team", OneArg("name", "dodgers")),
    Call("resolve_player", OneArg("name", "judge")),
    Call("get_team_roster", NoArgs),
    Call("get_team_roster", OneArg("teamId", "999")),
    Call("get_team_roster", OneArg("teamId", "")),
    Call("get_player_stats", NoArgs),
    Call("get_standings", NoArgs),
    Call("get_weather", NoArgs) }

RECURSIVE SeqsUpTo(_, _)
SeqsUpTo(S, n) ==
  IF n = 0 THEN {<<>>}
  ELSE LET shorter == SeqsUpTo(S, n - 1)
       IN  shorter \cup {Append(s, x) : s \in {t \in shorter : Len(t) = n - 1}, x \in S}

CallLists == SeqsUpTo(CallSet, MaxCalls)

\* payloads the backend may return.  A resolver answers with an entity that
\* carries an id (147, 119, or the falsy id 0) or with a body without id.
NoData == [hasId |-> FALSE, id |-> 0, body |-> "none"]

Entity(n) == [hasId |-> TRUE, id |-> n, body |-> "entity"]

Unresolved == [hasId |-> FALSE, id |-> 0, body |-> "unresolved"]

DataOf(tool) == [hasId |-> FALSE, id |-> 0, body |-> tool]

BackendPayloads(tool) ==
  IF tool \in ResolverTools
  THEN {Entity(147), Entity(119), Entity(0), Unresolved}
  ELSE {DataOf(tool)}

\* ------------------------------------------------------------------------
\* JavaScript conversions
\* ------------------------------------------------------------------------
Digit(d) ==
  CASE d = 0 -> "0" [] d = 1 -> "1" [] d = 2 -> "2" [] d = 3 -> "3"
    [] d = 4 -> "4" [] d = 5 -> "5" [] d = 6 -> "6" [] d = 7 -> "7"
    [] d = 8 -> "8" [] d = 9 -> "9"

\* Number.prototype.toString() of a non-negative integer
RECURSIVE IdToString(_)
IdToString(n) == IF n < 10 THEN Digit(n) ELSE IdToString(n \div 10) \o Digit(n % 10)

\* truthiness of args[k]: an absent key reads undefined, "" is falsy
TruthyArg(args, k) == k \in DOMAIN args /\ args[k] # ""

\* variant: only the result itself is tested, not its id
TruthyResultOnly(p) == TRUE

\* truthiness of result.id (result && result.id): absent or 0 is falsy
TruthyId(p) == p.hasId /\ p.id # 0

\* { ...args, [k]: v }
WithArg(args, k, v) == [x \in DOMAIN args \cup {k} |-> IF x = k THEN v ELSE args[x]]

\* no cache operation yet
NoOp ==
  [op |-> "none", tool |-> "", key |-> "", faults |-> {}, hit |-> FALSE,
   source |-> "none", data |-> NoData, age |-> 0, ok |-> FALSE, threw |-> FALSE,
   fetched |-> FALSE, setCalls |-> 0, after |-> "none"]

\* what a cache operation did, in a word
Outcome(r) ==
  IF r.op = "get" THEN (IF r.hit THEN r.source ELSE "miss")
  ELSE IF r.op = "set" THEN (IF r.ok THEN "stored" ELSE "failed")
  ELSE IF r.op = "execute"
       THEN (IF r.hit THEN "hit" ELSE IF r.ok THEN "fetched" ELSE "failed")
  ELSE "none"

\* no function under test
NoProbe == [fn |-> "none"]

\* ------------------------------------------------------------------------
\* State
\* ------------------------------------------------------------------------
VARIABLES
  toolCalls,        \* the ordered ToolCall list of the request
  pc,               \* position of processToolCalls: phase1, phase2, done, idle
  i,                \* loop index into toolCalls (1-based)
  results,          \* const results = []
  resolverResults,  \* const resolverResults = new Map()
  executed,         \* log of the (tool, args) handed to _executeSingleTool
  backendCalls,     \* log of the tools that reached mcpService.fetch
  kvOn,             \* env.SPORTS_CACHE is bound
  r2On,             \* env.SPORTS_STORAGE is bound
  kv,               \* hot tier: key -> [payload, timestamp]
  r2,               \* cold tier: key -> [payload, timestamp]
  now,              \* Date.now(), in seconds
  spc,              \* position of processStreamingRequest
  si,               \* index of the tool call being streamed
  words,            \* delta events still to write for the current text
  current,          \* result of the execution awaited last
  events,           \* events written to the channel, in order
  chan,             \* writable side: open, errored, closed
  closeCalls,       \* number of writer.close() calls
  writesAfterClose, \* number of writer.write() calls made after close()
  failure,          \* what the catch block caught: none, tool, emit
  rejected,         \* the returned promise rejected (throw out of catch / finally)
  ticks,            \* number of times the clock has advanced
  last,             \* the cache operation completed last and what it returned
  probe             \* input and output of a pure function under test

pipeVars == <<pc, i, results, resolverResults>>

cacheVars == <<kvOn, r2On, kv, r2, now>>

streamVars == <<spc, si, words, current, events, chan, closeCalls, writesAfterClose, failure, rejected>>

unitVars == <<ticks, last, probe>>

vars == <<toolCalls, pipeVars, executed, backendCalls, cacheVars, streamVars, unitVars>>

\* ------------------------------------------------------------------------
\* CacheManager (src/unnamed/part_003)
\* ------------------------------------------------------------------------
NoEntries == [k \in {} |-> [payload |-> NoData, timestamp |-> 0]]

\* keys.map(key => `${key}:${args[key]}`).join('|') over the sorted keys
RECURSIVE JoinPairs(_, _)
JoinPairs(keys, args) ==
  IF keys = <<>> THEN ""
  ELSE LET k == Head(keys)
           pair == k \o ":" \o args[k]
       IN  IF Len(keys) = 1 THEN pair
           ELSE pair \o "|" \o JoinPairs(Tail(keys), args)

\* Object.keys(args).sort()
SortedKeys(args) == SelectSeq(KeyOrder, LAMBDA k : k \in DOMAIN args)

_generateKey(tool, args) == "sports:" \o tool \o ":" \o JoinPairs(SortedKeys(args), args)

\* position of a key in the order String comparison puts the keys in
Rank(k) == CHOOSE n \in 1..Len(KeyOrder) : KeyOrder[n] = k

\* variant: the comparison never moves a key
InsertKeyLast(sorted, k) == sorted \o <<k>>

\* keys sorted so far, with k put in its place
InsertKey(sorted, k) ==
  LET before == SelectSeq(sorted, LAMBDA x : Rank(x) <= Rank(k))
      after == SelectSeq(sorted, LAMBDA x : Rank(x) > Rank(k))
  IN  before \o <<k>> \o after

\* Array.prototype.sort() on a list of keys
RECURSIVE SortKeys(_)
SortKeys(keys) ==
  IF keys = <<>> THEN <<>>
  ELSE InsertKey(SortKeys(Tail(keys)), Head(keys))

\* _generateKey on an object given with its insertion order: obj.keys is
\* Object.keys(args), obj.val the value under each key
_generateKeyOf(tool, obj) ==
  "sports:" \o tool \o ":" \o JoinPairs(SortKeys(obj.keys), obj.val)

\* variant: an entry exactly ttlSeconds old still counts as valid
_isValidInclusive(entry, ttlSeconds, t) == t - entry.timestamp <= ttlSeconds

\* age = (Date.now() - cachedData.timestamp) / 1000;  return age < ttlSeconds
_isValid(entry, ttlSeconds, t) == t - entry.timestamp < ttlSeconds

\* variant: _setHot lacks the if (!this.kv) return guard
_setHotUnguarded(kvNow, hotOn, key, data, t) ==
  [k \in DOMAIN kvNow \cup {key} |->
     IF k = key THEN [payload |-> data, timestamp |-> t] ELSE kvNow[k]]

\* the hot tier after _setHot(key, data) at time t
_setHot(kvNow, hotOn, key, data, t) ==
  IF ~hotOn THEN kvNow
  ELSE [k \in DOMAIN kvNow \cup {key} |->
          IF k = key THEN [payload |-> data, timestamp |-> t] ELSE kvNow[k]]

\* a cold tier that keeps the entry a key already has
_setColdOnce(r2Now, coldOn, key, data, t) ==
  IF ~coldOn \/ key \in DOMAIN r2Now THEN r2Now
  ELSE [k \in DOMAIN r2Now \cup {key} |->
          IF k = key THEN [payload |-> data, timestamp |-> t] ELSE r2Now[k]]

\* the cold tier after _setCold(key, payload) at time t
_setCold(r2Now, coldOn, key, data, t) ==
  IF ~coldOn THEN r2Now
  ELSE [k \in DOMAIN r2Now \cup {key} |->
          IF k = key THEN [payload |-> data, timestamp |-> t] ELSE r2Now[k]]

\* the tier operations that can throw
TierOps == {"kv.get", "r2.get", "kv.put", "r2.put"}

\* the tier operations that throw during one cache operation: none or one of
\* them
FaultSets == {{}} \cup {{f} : f \in TierOps}

\* variant: get has no catch block
GetRethrows(kvNow) ==
  [hit |-> FALSE, data |-> NoData, source |-> "none", age |-> 0, kv |-> kvNow, threw |-> TRUE]

\* catch (error) { console.error(...); return null; } of get
GetCaught(kvNow) ==
  [hit |-> FALSE, data |-> NoData, source |-> "none", age |-> 0, kv |-> kvNow, threw |-> FALSE]

\* a cold entry that counts as valid at any age
ColdValidForever(key) == r2On /\ key \in DOMAIN r2

\* coldObject && this._isValid(coldData, this.coldTTL)
ColdValid(key) == r2On /\ key \in DOMAIN r2 /\ _isValid(r2[key], coldTTL, now)

\* a cold hit whose age is counted from the promotion
ColdHitAgedFromPromotion(key) ==
  LET promoted == _setHot(kv, kvOn, key, r2[key].payload, now)
  IN  [hit |-> TRUE, data |-> r2[key].payload, source |-> "cold",
       age |-> IF key \in DOMAIN promoted THEN now - promoted[key].timestamp ELSE 0,
       kv |-> promoted, threw |-> FALSE]

\* the cold branch of get once the cold entry is valid: await
\* this._setHot(key, coldData.payload), then return the payload with source
\* cold and age Date.now() - coldData.timestamp
ColdHit(key) ==
  [hit |-> TRUE, data |-> r2[key].payload, source |-> "cold",
   age |-> now - r2[key].timestamp,
   kv |-> _setHot(kv, kvOn, key, r2[key].payload, now), threw |-> FALSE]

\* variant: a cold hit is returned without being copied to the hot tier
CacheGetNoPromote(tool, args, faults) ==
  LET key == _generateKey(tool, args)
      hotHit == kvOn /\ key \in DOMAIN kv /\ _isValid(kv[key], hotTTL, now)
      coldHit == r2On /\ key \in DOMAIN r2 /\ _isValid(r2[key], coldTTL, now)
  IN  IF kvOn /\ "kv.get" \in faults
      THEN GetCaught(kv)
      ELSE IF hotHit
      THEN [hit |-> TRUE, data |-> kv[key].payload, source |-> "hot",
            age |-> now - kv[key].timestamp, kv |-> kv, threw |-> FALSE]
      ELSE IF r2On /\ "r2.get" \in faults
      THEN GetCaught(kv)
      ELSE IF coldHit
      THEN [hit |-> TRUE, data |-> r2[key].payload, source |-> "cold",
            age |-> now - r2[key].timestamp, kv |-> kv, threw |-> FALSE]
      ELSE [hit |-> FALSE, data |-> NoData, source |-> "none", age |-> 0, kv |-> kv,
            threw |-> FALSE]

\* CacheManager.get while the tier operations in faults throw: the value
\* returned (hit = FALSE stands for null) and the hot tier it leaves behind
\* (a cold hit promotes)
CacheGetF(tool, args, faults) ==
  LET key == _generateKey(tool, args)
      hotHit == kvOn /\ key \in DOMAIN kv /\ _isValid(kv[key], hotTTL, now)
      coldHit == ColdValid(key)
  IN  IF kvOn /\ "kv.get" \in faults
      THEN GetCaught(kv)
      ELSE IF hotHit
      THEN [hit |-> TRUE, data |-> kv[key].payload, source |-> "hot",
            age |-> now - kv[key].timestamp, kv |-> kv, threw |-> FALSE]
      ELSE IF r2On /\ "r2.get" \in faults
      THEN GetCaught(kv)
      ELSE IF coldHit
      THEN IF kvOn /\ "kv.put" \in faults
           THEN GetCaught(kv)
           ELSE ColdHit(key)
      ELSE [hit |-> FALSE, data |-> NoData, source |-> "none", age |-> 0, kv |-> kv,
            threw |-> FALSE]

\* CacheManager.get with tiers that answer
CacheGet(tool, args) == CacheGetF(tool, args, {})

\* variant: set writes the hot tier and leaves the cold tier alone
CacheSetHotOnly(kvNow, r2Now, tool, args, data, faults) ==
  LET key == _generateKey(tool, args)
  IN  IF kvOn /\ "kv.put" \in faults
      THEN [kv |-> kvNow, r2 |-> r2Now, ok |-> FALSE, threw |-> FALSE]
      ELSE [kv |-> _setHot(kvNow, kvOn, key, data, now), r2 |-> r2Now,
            ok |-> TRUE, threw |-> FALSE]

\* CacheManager.set while the tier operations in faults throw: both tiers
\* after the call and the boolean returned. One try block holds
\* await this._setHot(...) followed by await this._setCold(...).
CacheSetF(kvNow, r2Now, tool, args, data, faults) ==
  LET key == _generateKey(tool, args)
  IN  IF kvOn /\ "kv.put" \in faults
      THEN [kv |-> kvNow, r2 |-> r2Now, ok |-> FALSE, threw |-> FALSE]
      ELSE IF r2On /\ "r2.put" \in faults
      THEN [kv |-> _setHot(kvNow, kvOn, key, data, now), r2 |-> r2Now,
            ok |-> FALSE, threw |-> FALSE]
      ELSE [kv |-> _setHot(kvNow, kvOn, key, data, now),
            r2 |-> _setCold(r2Now, r2On, key, data, now),
            ok |-> TRUE, threw |-> FALSE]

\* CacheManager.set with tiers that answer
CacheSet(kvNow, r2Now, tool, args, data) == CacheSetF(kvNow, r2Now, tool, args, data, {})

\* cacheRules[tool] || 60
shouldCache(tool) ==
  CASE tool = "get_team_info" -> 300
    [] tool = "get_player_stats" -> 60
    [] tool = "get_team_roster" -> 3600
    [] tool = "get_schedule" -> 30
    [] tool = "get_standings" -> 60
    [] tool = "get_live_game" -> 5
    [] OTHER -> 60

\* the live window with its first and last hours left out
isDuringGamesExclusive(hour) == (hour > 13 /\ hour < 16) \/ (hour > 19 /\ hour < 22)

\* (hour >= 13 && hour <= 16) || (hour >= 19 && hour <= 22)
isDuringGames(hour) == (hour >= 13 /\ hour <= 16) \/ (hour >= 19 /\ hour <= 22)

Min(a, b) == IF a < b THEN a ELSE b

\* CacheManager.getSmartTTL at local hour `hour`
getSmartTTL(tool, hour) ==
  IF isDuringGames(hour) /\ (tool = "get_live_game" \/ tool = "get_player_stats")
  THEN Min(shouldCache(tool), 10)
  ELSE shouldCache(tool)

\* ------------------------------------------------------------------------
\* MCPCoordinator.callTool (src/unnamed/part_002, second class)
\* ------------------------------------------------------------------------
\* HTTP statuses the backend answers with
Statuses == {200, 201, 404, 500}

\* response.ok
ResponseOk(status) == status >= 200 /\ status <= 299

\* the JSON bodies of a response: with a (truthy) error field or without, and
\* the payload the body stands for when it is taken as the result
Bodies(toolName) == [hasError : BOOLEAN, payload : BackendPayloads(toolName)]

Responses(toolName) == [status : Statuses, body : Bodies(toolName)]

\* routing that reads the body before the status
_routeBodyFirst(toolName, response) ==
  IF toolName \notin KnownTools
  THEN [ok |-> FALSE, error |-> "Unknown tool", data |-> NoData, fetched |-> FALSE]
  ELSE IF response.body.hasError
  THEN [ok |-> FALSE, error |-> "MCP service error: application", data |-> NoData,
        fetched |-> TRUE]
  ELSE IF ~ResponseOk(response.status)
  THEN [ok |-> FALSE, error |-> "MCP service error: status", data |-> NoData,
        fetched |-> TRUE]
  ELSE [ok |-> TRUE, error |-> "", data |-> response.body.payload, fetched |-> TRUE]

\* _routeAndExecuteTool(toolName, args) when mcpService.fetch answers with
\* response: Unknown tool is thrown before the fetch; then !response.ok throws
\* with the status, then result.error throws, else the body is returned
_routeAndExecuteTool(toolName, response) ==
  IF toolName \notin KnownTools
  THEN [ok |-> FALSE, error |-> "Unknown tool", data |-> NoData, fetched |-> FALSE]
  ELSE IF ~ResponseOk(response.status)
  THEN [ok |-> FALSE, error |-> "MCP service error: status", data |-> NoData,
        fetched |-> TRUE]
  ELSE IF response.body.hasError
  THEN [ok |-> FALSE, error |-> "MCP service error: application", data |-> NoData,
        fetched |-> TRUE]
  ELSE [ok |-> TRUE, error |-> "", data |-> response.body.payload, fetched |-> TRUE]

\* the ways one callTool(toolName, args) can end: a thrown error (unknown
\* tool before any fetch; non-2xx status; error field in the body) or the
\* normalized payload
callTool(toolName) ==
  {_routeAndExecuteTool(toolName, r) : r \in Responses(toolName)}

\* ------------------------------------------------------------------------
\* ToolHandler (src/src/intelligence/toolHandler.js)
\* ------------------------------------------------------------------------
\* variant: the result is written to the cache before it is tested for an error
_executeSingleToolCachesErrors(toolName, args, faults) ==
  LET cached == CacheGetF(toolName, args, faults)
  IN  IF cached.hit
      THEN {[ok |-> TRUE, error |-> "", data |-> cached.data, fetched |-> FALSE,
             kv |-> cached.kv, r2 |-> r2, hit |-> TRUE, setCalls |-> 0]}
      ELSE {LET written == CacheSetF(cached.kv, r2, toolName, args, o.data, faults)
            IN  [ok |-> o.ok, error |-> o.error, data |-> o.data, fetched |-> o.fetched,
                 kv |-> written.kv, r2 |-> written.r2, hit |-> FALSE, setCalls |-> 1]
            : o \in callTool(toolName)}

\* the ways one _executeSingleTool(toolName, args) can end in the current
\* state while the tier operations in faults throw: the value returned or the
\* error thrown, the cache it leaves behind, whether the backend was reached
\* and the number of cacheManager.set calls made. The ttl handed to set as a
\* fourth argument has no parameter to land in.
_executeSingleToolF(toolName, args, faults) ==
  LET cached == CacheGetF(toolName, args, faults)
  IN  IF cached.hit
      THEN {[ok |-> TRUE, error |-> "", data |-> cached.data, fetched |-> FALSE,
             kv |-> cached.kv, r2 |-> r2, hit |-> TRUE, setCalls |-> 0]}
      ELSE {IF o.ok
            THEN LET written == CacheSetF(cached.kv, r2, toolName, args, o.data, faults)
                 IN  [ok |-> TRUE, error |-> "", data |-> o.data, fetched |-> TRUE,
                      kv |-> written.kv, r2 |-> written.r2, hit |-> FALSE, setCalls |-> 1]
            ELSE [ok |-> FALSE, error |-> o.error, data |-> NoData, fetched |-> o.fetched,
                  kv |-> cached.kv, r2 |-> r2, hit |-> FALSE, setCalls |-> 0]
            : o \in callTool(toolName)}

\* _executeSingleTool with cache tiers that answer
_executeSingleTool(toolName, args) == _executeSingleToolF(toolName, args, {})

\* variant: only resolve_team is recognised as a resolver
IsResolverTeamOnly(name) == name = "resolve_team"

IsResolver(name) == name = "resolve_team" \/ name = "resolve_player"

\* toolCall.name === 'resolve_team' ? 'team' : 'player'
EntityTypeOf(name) == IF name = "resolve_team" THEN "team" ELSE "player"

\* toolEntityMap[toolCall.name] || []
toolEntityMap(name) ==
  CASE name = "get_team_info" -> <<"team">>
    [] name = "get_team_roster" -> <<"team">>
    [] name = "get_player_stats" -> <<"player">>
    [] name = "get_schedule" -> <<"team">>
    [] OTHER -> <<>>

\* variant: the player branch writes teamId as well
ArgKeyTeamOnly(entityType) == "teamId"

\* the argument key an entity type is injected under
ArgKeyOf(entityType) == IF entityType = "team" THEN "teamId" ELSE "playerId"

\* one iteration of the loop over requiredEntities
EnrichOne(enrichedArgs, entityType, resolved) ==
  IF entityType \in DOMAIN resolved /\ TruthyId(resolved[entityType])
     /\ ~TruthyArg(enrichedArgs, ArgKeyOf(entityType))
  THEN WithArg(enrichedArgs, ArgKeyOf(entityType), IdToString(resolved[entityType].id))
  ELSE enrichedArgs

RECURSIVE EnrichAll(_, _, _)
EnrichAll(enrichedArgs, entityTypes, resolved) ==
  IF entityTypes = <<>> THEN enrichedArgs
  ELSE EnrichAll(EnrichOne(enrichedArgs, Head(entityTypes), resolved), Tail(entityTypes), resolved)

_enrichToolArguments(toolCall, resolved) ==
  EnrichAll(toolCall.arguments, toolEntityMap(toolCall.name), resolved)

NoResolved == [e \in {} |-> NoData]

\* a map whose set keeps the entry a key already has
MapSetOnce(m, k, v) == [x \in DOMAIN m \cup {k} |-> IF x \in DOMAIN m THEN m[x] ELSE v]

\* resolverResults.set(entityType, result)
MapSet(m, k, v) == [x \in DOMAIN m \cup {k} |-> IF x = k THEN v ELSE m[x]]

\* results.push({ tool, result, success: true [, enriched] })
SuccessResult(toolCall, idx, data, enrichedFlag) ==
  [tool |-> toolCall.name, success |-> TRUE, result |-> data, error |-> "",
   enriched |-> enrichedFlag, idx |-> idx]

\* variant: the catch block swallows the error without recording it
CatchSwallow(res, toolCall, idx, message) == res

\* catch (error) { results.push({ tool, error: error.message, success: false }) }
CatchPush(res, toolCall, idx, message) ==
  Append(res, [tool |-> toolCall.name, success |-> FALSE, result |-> NoData,
               error |-> message, enriched |-> "absent", idx |-> idx])

\* enriched: enrichedArgs !== toolCall.arguments compares object identity,
\* and enrichedArgs is always the fresh copy { ...toolCall.arguments }
EnrichedFlag(enrichedArgs, ownArgs) == "true"

\* log entry: call idx was executed as toolName(args) and returned (ok) or threw
Executed(idx, toolName, args, ok) == [idx |-> idx, tool |-> toolName, args |-> args, ok |-> ok]

Fetched(o, toolName) == IF o.fetched THEN Append(backendCalls, toolName) ELSE backendCalls

\* first loop of processToolCalls, an iteration on a resolver call
Phase1Resolve ==
  /\ pc = "phase1"
  /\ i <= Len(toolCalls)
  /\ IsResolver(toolCalls[i].name)
  /\ LET toolCall == toolCalls[i]
     IN  \E o \in _executeSingleTool(toolCall.name, toolCall.arguments) :
           /\ results' = IF o.ok
                         THEN Append(results, SuccessResult(toolCall, i, o.data, "absent"))
                         ELSE CatchPush(results, toolCall, i, o.error)
           /\ resolverResults' = IF o.ok /\ TruthyId(o.data)
                                 THEN MapSet(resolverResults, EntityTypeOf(toolCall.name), o.data)
                                 ELSE resolverResults
           /\ executed' = Append(executed, Executed(i, toolCall.name, toolCall.arguments, o.ok))
           /\ backendCalls' = Fetched(o, toolCall.name)
           /\ kv' = o.kv
           /\ r2' = o.r2
  /\ i' = i + 1
  /\ UNCHANGED <<unitVars, toolCalls, pc, kvOn, r2On, now, streamVars>>

\* first loop, an iteration on a non-resolver call: nothing to do
Phase1Skip ==
  /\ pc = "phase1"
  /\ i <= Len(toolCalls)
  /\ ~IsResolver(toolCalls[i].name)
  /\ i' = i + 1
  /\ UNCHANGED <<unitVars, toolCalls, pc, results, resolverResults, executed, backendCalls, cacheVars, streamVars>>

\* first loop exhausted: the second loop starts
Phase1End ==
  /\ pc = "phase1"
  /\ i > Len(toolCalls)
  /\ pc' = "phase2"
  /\ i' = 1
  /\ UNCHANGED <<unitVars, toolCalls, results, resolverResults, executed, backendCalls, cacheVars, streamVars>>

\* second loop, an iteration on a non-resolver call: enrich, execute, record
Phase2Execute ==
  /\ pc = "phase2"
  /\ i <= Len(toolCalls)
  /\ ~IsResolver(toolCalls[i].name)
  /\ LET toolCall == toolCalls[i]
         enrichedArgs == _enrichToolArguments(toolCall, resolverResults)
     IN  \E o \in _executeSingleTool(toolCall.name, enrichedArgs) :
           /\ results' = IF o.ok
                         THEN Append(results, SuccessResult(toolCall, i, o.data,
                                       EnrichedFlag(enrichedArgs, toolCall.arguments)))
                         ELSE CatchPush(results, toolCall, i, o.error)
           /\ executed' = Append(executed, Executed(i, toolCall.name, enrichedArgs, o.ok))
           /\ backendCalls' = Fetched(o, toolCall.name)
           /\ kv' = o.kv
           /\ r2' = o.r2
  /\ i' = i + 1
  /\ UNCHANGED <<unitVars, toolCalls, pc, resolverResults, kvOn, r2On, now, streamVars>>

\* second loop, an iteration on a resolver call: nothing to do
Phase2Skip ==
  /\ pc = "phase2"
  /\ i <= Len(toolCalls)
  /\ IsResolver(toolCalls[i].name)
  /\ i' = i + 1
  /\ UNCHANGED <<unitVars, toolCalls, pc, results, resolverResults, executed, backendCalls, cacheVars, streamVars>>

\* return results
Phase2End ==
  /\ pc = "phase2"
  /\ i > Len(toolCalls)
  /\ pc' = "done"
  /\ UNCHANGED <<unitVars, toolCalls, i, results, resolverResults, executed, backendCalls, cacheVars, streamVars>>

\* a processToolCalls run on any bounded call list, with either tier bound or
\* not and both tiers empty
Init ==
  /\ toolCalls \in CallLists
  /\ pc = "phase1"
  /\ i = 1
  /\ results = <<>>
  /\ resolverResults = NoResolved
  /\ executed = <<>>
  /\ backendCalls = <<>>
  /\ kvOn \in BOOLEAN
  /\ r2On \in BOOLEAN
  /\ kv = NoEntries
  /\ r2 = NoEntries
  /\ now = 0
  /\ spc = "idle"
  /\ si = 0
  /\ words = 0
  /\ current = NoData
  /\ events = <<>>
  /\ chan = "open"
  /\ closeCalls = 0
  /\ writesAfterClose = 0
  /\ failure = "none"
  /\ rejected = FALSE
  /\ ticks = 0
  /\ last = NoOp
  /\ probe = NoProbe

Next ==
  \/ Phase1Resolve
  \/ Phase1Skip
  \/ Phase1End
  \/ Phase2Execute
  \/ Phase2Skip
  \/ Phase2End

Spec == Init /\ [][Next]_vars

\* ------------------------------------------------------------------------
\* processToolCalls on lists with two resolver calls and a call to enrich
\* ------------------------------------------------------------------------
ResolverCallSet == {c \in CallSet : c.name \in ResolverTools}

\* the calls whose tool requires an entity
EnrichableCallSet ==
  { Call("get_team_roster", NoArgs),
    Call("get_team_roster", OneArg("teamId", "999")),
    Call("get_player_stats", NoArgs) }

\* two resolver calls and one call to enrich, the latter at any position
ResolveLists ==
  UNION {{<<a, b, d>>, <<a, d, b>>, <<d, a, b>>} :
           a \in ResolverCallSet, b \in ResolverCallSet, d \in EnrichableCallSet}

InitResolve ==
  /\ toolCalls \in ResolveLists
  /\ pc = "phase1"
  /\ i = 1
  /\ results = <<>>
  /\ resolverResults = NoResolved
  /\ executed = <<>>
  /\ backendCalls = <<>>
  /\ kvOn \in BOOLEAN
  /\ r2On \in BOOLEAN
  /\ kv = NoEntries
  /\ r2 = NoEntries
  /\ now = 0
  /\ spc = "idle"
  /\ si = 0
  /\ words = 0
  /\ current = NoData
  /\ events = <<>>
  /\ chan = "open"
  /\ closeCalls = 0
  /\ writesAfterClose = 0
  /\ failure = "none"
  /\ rejected = FALSE
  /\ ticks = 0
  /\ last = NoOp
  /\ probe = NoProbe

SpecResolve == InitResolve /\ [][Next]_vars

\* ------------------------------------------------------------------------
\* OpenAIResponseProcessor.processStreamingRequest
\* (src/src/openai/responseProcessor.js), driven by the orchestrator with
\* executeToolFn = toolHandler._executeSingleTool over a TransformStream writer
\* ------------------------------------------------------------------------
\* variant: the static message loses its last word
StaticWordsShort == 22 - 1

\* words of generateContextualResponse(''): the default message split on ' '
StaticWords == 22

CreatedEvent == "response.created"

\* variant: the second write repeats the first event name
InProgressCopied == "response.created"

InProgressEvent == "response.in_progress"

ToolCallEvent == "tool_call"

ToolResultEvent == "tool_result"

DeltaEvent == "response.output_text.delta"

CompletedEvent == "response.completed"

ErrorEvent == "response.error"

Event(type, toolName, idx) == [type |-> type, tool |-> toolName, idx |-> idx]

\* writer.write(chunk) resolves only on a writable stream; once a write has
\* failed the stream is errored and every later write rejects
CanWrite == chan = "open"

\* a write that resolves
Written(e) ==
  /\ CanWrite
  /\ events' = Append(events, e)
  /\ UNCHANGED <<chan, writesAfterClose>>

\* a write that rejects: the reader went away (the stream errors) or the
\* stream is already errored or closed
WriteFails ==
  /\ chan' = IF chan = "open" THEN "errored" ELSE chan
  /\ writesAfterClose' = IF closeCalls > 0 THEN writesAfterClose + 1 ELSE writesAfterClose
  /\ UNCHANGED events

\* control leaves the try block with an exception of the given origin
Caught(origin) ==
  /\ spc' = "catch"
  /\ failure' = origin

\* variant: the completion write sits after the try/catch instead of inside try
NextAfterCatchCompletes == "completed"

\* catch block done: control enters finally
NextAfterCatch == "finally"

\* variant: close() is called in the catch block only, there is no finally
NextAfterCompletedReturns == "done"

\* try block done: control enters finally
NextAfterCompleted == "finally"

\* what follows the last delta of a tool call: the next call or completion
NextAfterDeltas(idx) == IF idx < Len(toolCalls) THEN "tool_call" ELSE "completed"

\* the number of elements of formatToolResultFn(name, result).split(' '):
\* the tool name, "result:" and the chunks of the pretty-printed JSON
WordCounts == {2 + n : n \in 1..MaxJsonWords}

SendCreated ==
  /\ spc = "created"
  /\ \/ /\ Written(Event(CreatedEvent, "", 0))
        /\ spc' = "in_progress"
        /\ UNCHANGED failure
     \/ /\ WriteFails
        /\ Caught("emit")
  /\ UNCHANGED <<unitVars, toolCalls, pipeVars, executed, backendCalls, cacheVars, si, words, current, closeCalls, rejected>>

SendInProgress ==
  /\ spc = "in_progress"
  /\ \/ /\ Written(Event(InProgressEvent, "", 0))
        /\ IF Len(toolCalls) > 0
           THEN spc' = "tool_call" /\ si' = 1 /\ words' = words
           ELSE spc' = "static" /\ si' = si /\ words' = StaticWords
        /\ UNCHANGED failure
     \/ /\ WriteFails
        /\ Caught("emit")
        /\ UNCHANGED <<si, words>>
  /\ UNCHANGED <<unitVars, toolCalls, pipeVars, executed, backendCalls, cacheVars, current, closeCalls, rejected>>

SendToolCall ==
  /\ spc = "tool_call"
  /\ \/ /\ Written(Event(ToolCallEvent, toolCalls[si].name, si))
        /\ spc' = "execute"
        /\ UNCHANGED failure
     \/ /\ WriteFails
        /\ Caught("emit")
  /\ UNCHANGED <<unitVars, toolCalls, pipeVars, executed, backendCalls, cacheVars, si, words, current, closeCalls, rejected>>

\* const result = await executeToolFn(toolCall.name, toolCall.arguments)
ExecuteTool ==
  /\ spc = "execute"
  /\ LET toolCall == toolCalls[si]
     IN  \E o \in _executeSingleTool(toolCall.name, toolCall.arguments) :
           /\ IF o.ok
              THEN spc' = "tool_result" /\ current' = o.data /\ failure' = failure
              ELSE Caught("tool") /\ current' = current
           /\ executed' = Append(executed, Executed(si, toolCall.name, toolCall.arguments, o.ok))
           /\ backendCalls' = Fetched(o, toolCall.name)
           /\ kv' = o.kv
           /\ r2' = o.r2
  /\ UNCHANGED <<unitVars, toolCalls, pipeVars, kvOn, r2On, now, si, words, events, chan, closeCalls, writesAfterClose, rejected>>

SendToolResult ==
  /\ spc = "tool_result"
  /\ \/ /\ Written(Event(ToolResultEvent, toolCalls[si].name, si))
        /\ spc' = "delta"
        /\ words' \in WordCounts
        /\ UNCHANGED failure
     \/ /\ WriteFails
        /\ Caught("emit")
        /\ UNCHANGED words
  /\ UNCHANGED <<unitVars, toolCalls, pipeVars, executed, backendCalls, cacheVars, si, current, closeCalls, rejected>>

\* one iteration of the loop over the words of a tool result
SendDelta ==
  /\ spc = "delta"
  /\ \/ /\ Written(Event(DeltaEvent, toolCalls[si].name, si))
        /\ words' = words - 1
        /\ IF words > 1
           THEN spc' = spc /\ si' = si
           ELSE /\ spc' = NextAfterDeltas(si)
                /\ si' = IF si < Len(toolCalls) THEN si + 1 ELSE si
        /\ UNCHANGED failure
     \/ /\ WriteFails
        /\ Caught("emit")
        /\ UNCHANGED <<si, words>>
  /\ UNCHANGED <<unitVars, toolCalls, pipeVars, executed, backendCalls, cacheVars, current, closeCalls, rejected>>

\* one iteration of the loop over the words of the static message
SendStaticDelta ==
  /\ spc = "static"
  /\ \/ /\ Written(Event(DeltaEvent, "", 0))
        /\ words' = words - 1
        /\ spc' = IF words > 1 THEN spc ELSE "completed"
        /\ UNCHANGED failure
     \/ /\ WriteFails
        /\ Caught("emit")
        /\ UNCHANGED words
  /\ UNCHANGED <<unitVars, toolCalls, pipeVars, executed, backendCalls, cacheVars, si, current, closeCalls, rejected>>

SendCompleted ==
  /\ spc = "completed"
  /\ \/ /\ Written(Event(CompletedEvent, "", 0))
        /\ spc' = NextAfterCompleted
        /\ UNCHANGED failure
     \/ /\ WriteFails
        /\ Caught("emit")
  /\ UNCHANGED <<unitVars, toolCalls, pipeVars, executed, backendCalls, cacheVars, si, words, current, closeCalls, rejected>>

\* catch (error) { await writer.write(response.error) }: a rejected write
\* leaves the catch block as an exception, after finally has run
CatchSendError ==
  /\ spc = "catch"
  /\ \/ /\ Written(Event(ErrorEvent, "", 0))
        /\ UNCHANGED rejected
     \/ /\ WriteFails
        /\ rejected' = TRUE
  /\ spc' = NextAfterCatch
  /\ UNCHANGED <<unitVars, toolCalls, pipeVars, executed, backendCalls, cacheVars, si, words, current, closeCalls, failure>>

\* finally { await writer.close() }: close() rejects on an errored stream
FinallyClose ==
  /\ spc = "finally"
  /\ closeCalls' = closeCalls + 1
  /\ chan' = IF chan = "open" THEN "closed" ELSE chan
  /\ rejected' = (rejected \/ chan # "open")
  /\ spc' = "done"
  /\ UNCHANGED <<unitVars, toolCalls, pipeVars, executed, backendCalls, cacheVars, si, words, current, events, writesAfterClose, failure>>

\* a streaming run on any bounded call list
InitStream ==
  /\ toolCalls \in CallLists
  /\ pc = "idle"
  /\ i = 1
  /\ results = <<>>
  /\ resolverResults = NoResolved
  /\ executed = <<>>
  /\ backendCalls = <<>>
  /\ kvOn \in BOOLEAN
  /\ r2On \in BOOLEAN
  /\ kv = NoEntries
  /\ r2 = NoEntries
  /\ now = 0
  /\ spc = "created"
  /\ si = 0
  /\ words = 0
  /\ current = NoData
  /\ events = <<>>
  /\ chan = "open"
  /\ closeCalls = 0
  /\ writesAfterClose = 0
  /\ failure = "none"
  /\ rejected = FALSE
  /\ ticks = 0
  /\ last = NoOp
  /\ probe = NoProbe

NextStream ==
  \/ SendCreated
  \/ SendInProgress
  \/ SendToolCall
  \/ ExecuteTool
  \/ SendToolResult
  \/ SendDelta
  \/ SendStaticDelta
  \/ SendCompleted
  \/ CatchSendError
  \/ FinallyClose

SpecStream == InitStream /\ [][NextStream]_vars

\* ------------------------------------------------------------------------
\* One CacheManager over time: its callers issue get, set and
\* _executeSingleTool for a few (tool, args) while the clock advances and
\* tier operations may throw
\* ------------------------------------------------------------------------
MaxTicks == 3

\* the (tool, args) the cache is driven with
CacheCalls == {Call("get_live_game", NoArgs)}

\* a payload other than the backend's
OtherData == [hasId |-> FALSE, id |-> 0, body |-> "other"]

\* the payloads handed to set directly; the backend's payload reaches the
\* cache through _executeSingleTool only
SetPayloads(tool) == {OtherData}

\* the amounts the clock advances by, in seconds: one second, one hot TTL,
\* one cold TTL
TickSteps == {1, hotTTL, coldTTL}

\* await cacheManager.get(tool, args)
CacheGetOp ==
  /\ pc = "idle" /\ spc = "idle"
  /\ \E c \in CacheCalls, f \in FaultSets :
       LET g == CacheGetF(c.name, c.arguments, f)
       IN  /\ kv' = g.kv
           /\ last' = [op |-> "get", tool |-> c.name,
                       key |-> _generateKey(c.name, c.arguments),
                       faults |-> f, hit |-> g.hit, source |-> g.source, data |-> g.data,
                       age |-> g.age, ok |-> g.hit, threw |-> g.threw,
                       fetched |-> FALSE, setCalls |-> 0, after |-> Outcome(last)]
  /\ UNCHANGED <<toolCalls, pipeVars, executed, backendCalls, kvOn, r2On, r2, now,
                 streamVars, ticks, probe>>

\* await cacheManager.set(tool, args, data)
CacheSetOp ==
  /\ pc = "idle" /\ spc = "idle"
  /\ \E c \in CacheCalls, f \in FaultSets :
       \E d \in SetPayloads(c.name) :
         LET w == CacheSetF(kv, r2, c.name, c.arguments, d, f)
         IN  /\ kv' = w.kv
             /\ r2' = w.r2
             /\ last' = [op |-> "set", tool |-> c.name,
                         key |-> _generateKey(c.name, c.arguments),
                         faults |-> f, hit |-> FALSE, source |-> "none", data |-> d,
                         age |-> 0, ok |-> w.ok, threw |-> w.threw,
                         fetched |-> FALSE, setCalls |-> 1, after |-> Outcome(last)]
  /\ UNCHANGED <<toolCalls, pipeVars, executed, backendCalls, kvOn, r2On, now,
                 streamVars, ticks, probe>>

\* await toolHandler._executeSingleTool(tool, args)
ExecuteOp ==
  /\ pc = "idle" /\ spc = "idle"
  /\ \E c \in CacheCalls, f \in FaultSets :
       \E o \in _executeSingleToolF(c.name, c.arguments, f) :
         /\ kv' = o.kv
         /\ r2' = o.r2
         /\ last' = [op |-> "execute", tool |-> c.name,
                     key |-> _generateKey(c.name, c.arguments),
                     faults |-> f, hit |-> o.hit, source |-> "none", data |-> o.data,
                     age |-> 0, ok |-> o.ok, threw |-> ~o.ok,
                     fetched |-> o.fetched, setCalls |-> o.setCalls, after |-> Outcome(last)]
  /\ UNCHANGED <<toolCalls, pipeVars, executed, backendCalls, kvOn, r2On, now,
                 streamVars, ticks, probe>>

\* Date.now() moves on
Tick ==
  /\ pc = "idle" /\ spc = "idle"
  /\ ticks < MaxTicks
  /\ \E d \in TickSteps : now' = now + d
  /\ ticks' = ticks + 1
  /\ UNCHANGED <<toolCalls, pipeVars, executed, backendCalls, kvOn, r2On, kv, r2,
                 streamVars, last, probe>>

InitCache ==
  /\ toolCalls = <<>>
  /\ pc = "idle"
  /\ i = 1
  /\ results = <<>>
  /\ resolverResults = NoResolved
  /\ executed = <<>>
  /\ backendCalls = <<>>
  /\ kvOn \in BOOLEAN
  /\ r2On \in BOOLEAN
  /\ kv = NoEntries
  /\ r2 = NoEntries
  /\ now = 0
  /\ spc = "idle"
  /\ si = 0
  /\ words = 0
  /\ current = NoData
  /\ events = <<>>
  /\ chan = "open"
  /\ closeCalls = 0
  /\ writesAfterClose = 0
  /\ failure = "none"
  /\ rejected = FALSE
  /\ ticks = 0
  /\ last = NoOp
  /\ probe = NoProbe

NextCache ==
  \/ CacheGetOp
  \/ CacheSetOp
  \/ ExecuteOp
  \/ Tick

SpecCache == InitCache /\ [][NextCache]_vars

\* ------------------------------------------------------------------------
\* CacheManager._generateKey applied to argument objects that differ in the
\* order their keys were inserted
\* ------------------------------------------------------------------------
\* the values an argument takes
ArgValues == {"147", "judge"}

\* sequences of distinct argument keys
KeySeqs == {q \in SeqsUpTo({KeyOrder[n] : n \in 1..Len(KeyOrder)}, Len(KeyOrder)) :
              \A m, n \in 1..Len(q) : m # n => q[m] # q[n]}

\* argument objects: the keys in insertion order and the value under each
Objects ==
  UNION {{[keys |-> q, val |-> v] : v \in [{q[n] : n \in 1..Len(q)} -> ArgValues]} : q \in KeySeqs}

InitKey ==
  /\ toolCalls = <<>>
  /\ pc = "idle"
  /\ i = 1
  /\ results = <<>>
  /\ resolverResults = NoResolved
  /\ executed = <<>>
  /\ backendCalls = <<>>
  /\ kvOn = FALSE
  /\ r2On = FALSE
  /\ kv = NoEntries
  /\ r2 = NoEntries
  /\ now = 0
  /\ spc = "idle"
  /\ si = 0
  /\ words = 0
  /\ current = NoData
  /\ events = <<>>
  /\ chan = "open"
  /\ closeCalls = 0
  /\ writesAfterClose = 0
  /\ failure = "none"
  /\ rejected = FALSE
  /\ ticks = 0
  /\ last = NoOp
  /\ probe \in {[fn |-> "_generateKey", tool |-> t, a |-> a, b |-> b,
                 keyA |-> "", keyB |-> "", done |-> FALSE] :
                  t \in {"get_team_info", "get_player_stats"}, a \in Objects, b \in Objects}

\* this._generateKey(tool, args) on both objects
GenerateKeys ==
  /\ probe.fn = "_generateKey"
  /\ ~probe.done
  /\ probe' = [probe EXCEPT !.keyA = _generateKeyOf(probe.tool, probe.a),
                            !.keyB = _generateKeyOf(probe.tool, probe.b),
                            !.done = TRUE]
  /\ UNCHANGED <<toolCalls, pipeVars, executed, backendCalls, cacheVars, streamVars,
                 ticks, last>>

NextKey == GenerateKeys

SpecKey == InitKey /\ [][NextKey]_vars

\* ------------------------------------------------------------------------
\* ToolHandler.extractToolCalls (src/src/intelligence/toolHandler.js)
\* ------------------------------------------------------------------------
\* The lower-cased input text is given by the patterns that occur in it:
\* inputText.includes(p) is p \in text. The tables are the first entries of
\* the source's tables, in the source's order.
intentPatterns ==
  [team_info |-> <<"info">>, roster |-> <<"roster">>, stats |-> <<"stats">>]

entityPatterns ==
  [teams |-> <<"yankees", "dodgers">>, players |-> <<"judge", "ohtani">>]

\* tool.function.name.replace("get_","").replace("_"," ")
FallbackPhrase(name) ==
  CASE name = "get_team_roster" -> "team roster"
    [] name = "get_team_info" -> "team info"
    [] name = "get_player_stats" -> "player stats"
    [] name = "resolve_team" -> "resolve team"
    [] name = "resolve_player" -> "resolve player"
    [] OTHER -> name

\* the tools a request declares, in the order they are listed
ToolOrder ==
  <<"resolve_team", "resolve_player", "get_team_roster", "get_team_info", "get_player_stats">>

Elements(q) == {q[n] : n \in 1..Len(q)}

\* every pattern and phrase a text is asked about
Patterns ==
  Elements(entityPatterns.teams) \cup Elements(entityPatterns.players)
  \cup Elements(intentPatterns.roster) \cup Elements(intentPatterns.team_info)
  \cup Elements(intentPatterns.stats)
  \cup {"team roster", "team info", "player stats"}

\* a text that contains a phrase contains the keyword inside the phrase
Texts ==
  {t \in SUBSET Patterns :
     /\ "team roster" \in t => "roster" \in t
     /\ "team info" \in t => "info" \in t
     /\ "player stats" \in t => "stats" \in t}

\* a declaration is { name, ... } (plain) or { type: 'function', function:
\* { name, ... } } (function); a tool list declares each tool at most once
Declarations == [Elements(ToolOrder) -> {"absent", "plain", "function"}]

ToolList(d) ==
  LET names == SelectSeq(ToolOrder, LAMBDA n : d[n] # "absent")
  IN  [k \in 1..Len(names) |-> [name |-> names[k], form |-> d[names[k]]]]

\* patterns.some(p => inputText.includes(p))
SomeMatch(patterns, text) == \E n \in 1..Len(patterns) : patterns[n] \in text

\* variant: the pattern matched last in declaration order is taken
LastMatch(patterns, text) ==
  patterns[CHOOSE n \in 1..Len(patterns) :
             /\ patterns[n] \in text
             /\ \A m \in (n + 1)..Len(patterns) : patterns[m] \notin text]

\* patterns.find(p => inputText.includes(p)), for a text that matches one
FirstMatch(patterns, text) ==
  patterns[CHOOSE n \in 1..Len(patterns) :
             /\ patterns[n] \in text
             /\ \A m \in 1..(n - 1) : patterns[m] \notin text]

hasTeamEntity(text) == SomeMatch(entityPatterns.teams, text)

hasPlayerEntity(text) == SomeMatch(entityPatterns.players, text)

\* tools.some(t => t.name === name || (typeof t.function === 'object' &&
\* t.function.name === name))
Declares(tools, name) == \E n \in 1..Len(tools) : tools[n].name = name

\* variant: get_team_info is looked at before get_team_roster
IntentCallInfoFirst(text, tools) ==
  IF SomeMatch(intentPatterns.team_info, text) /\ Declares(tools, "get_team_info")
  THEN <<Call("get_team_info", NoArgs)>>
  ELSE IF SomeMatch(intentPatterns.roster, text) /\ Declares(tools, "get_team_roster")
  THEN <<Call("get_team_roster", NoArgs)>>
  ELSE IF SomeMatch(intentPatterns.stats, text) /\ Declares(tools, "get_player_stats")
          /\ hasPlayerEntity(text)
  THEN <<Call("get_player_stats", NoArgs)>>
  ELSE <<>>

\* the if / else if / else if chain over the intents
IntentCall(text, tools) ==
  IF SomeMatch(intentPatterns.roster, text) /\ Declares(tools, "get_team_roster")
  THEN <<Call("get_team_roster", NoArgs)>>
  ELSE IF SomeMatch(intentPatterns.team_info, text) /\ Declares(tools, "get_team_info")
  THEN <<Call("get_team_info", NoArgs)>>
  ELSE IF SomeMatch(intentPatterns.stats, text) /\ Declares(tools, "get_player_stats")
          /\ hasPlayerEntity(text)
  THEN <<Call("get_player_stats", NoArgs)>>
  ELSE <<>>

\* the block under if (hasTeamEntity || hasPlayerEntity)
PrimaryCalls(text, tools) ==
  IF hasTeamEntity(text) \/ hasPlayerEntity(text)
  THEN (IF hasTeamEntity(text) /\ Declares(tools, "resolve_team")
        THEN <<Call("resolve_team", OneArg("name", FirstMatch(entityPatterns.teams, text)))>>
        ELSE <<>>)
       \o (IF hasPlayerEntity(text) /\ Declares(tools, "resolve_player")
           THEN <<Call("resolve_player", OneArg("name", FirstMatch(entityPatterns.players, text)))>>
           ELSE <<>>)
       \o IntentCall(text, tools)
  ELSE <<>>

\* one iteration of for (const tool of tools) in the fallback
FallbackOne(text, tool) ==
  IF tool.form = "function"
  THEN IF FallbackPhrase(tool.name) \in text
       THEN <<Call(tool.name, NoArgs)>>
       ELSE IF tool.name \in {"resolve_team", "resolve_player"}
               /\ (hasTeamEntity(text) \/ hasPlayerEntity(text))
       THEN <<Call(tool.name, NoArgs)>>
       ELSE <<>>
  ELSE <<>>

RECURSIVE FallbackCalls(_, _)
FallbackCalls(text, tools) ==
  IF tools = <<>> THEN <<>>
  ELSE FallbackOne(text, Head(tools)) \o FallbackCalls(text, Tail(tools))

extractToolCalls(text, tools) ==
  IF Len(tools) = 0 THEN <<>>
  ELSE LET primary == PrimaryCalls(text, tools)
       IN  IF Len(primary) = 0 THEN FallbackCalls(text, tools) ELSE primary

InitExtract ==
  /\ toolCalls = <<>>
  /\ pc = "idle"
  /\ i = 1
  /\ results = <<>>
  /\ resolverResults = NoResolved
  /\ executed = <<>>
  /\ backendCalls = <<>>
  /\ kvOn = FALSE
  /\ r2On = FALSE
  /\ kv = NoEntries
  /\ r2 = NoEntries
  /\ now = 0
  /\ spc = "idle"
  /\ si = 0
  /\ words = 0
  /\ current = NoData
  /\ events = <<>>
  /\ chan = "open"
  /\ closeCalls = 0
  /\ writesAfterClose = 0
  /\ failure = "none"
  /\ rejected = FALSE
  /\ ticks = 0
  /\ last = NoOp
  /\ probe \in {[fn |-> "extractToolCalls", text |-> t, tools |-> ToolList(d),
                 out |-> <<>>, done |-> FALSE] : t \in Texts, d \in Declarations}

\* const toolCalls = this.toolHandler.extractToolCalls(input, tools)
Extract ==
  /\ probe.fn = "extractToolCalls"
  /\ ~probe.done
  /\ probe' = [probe EXCEPT !.out = extractToolCalls(probe.text, probe.tools),
                            !.done = TRUE]
  /\ UNCHANGED <<toolCalls, pipeVars, executed, backendCalls, cacheVars, streamVars,
                 ticks, last>>

NextExtract == Extract

SpecExtract == InitExtract /\ [][NextExtract]_vars

\* ------------------------------------------------------------------------
\* Usage block of a non-streaming response (processResponsesAPIRequest)
\* ------------------------------------------------------------------------
\* every machine of the worker at rest: the state a pure function is applied in
Parked ==
  /\ toolCalls = <<>>
  /\ pc = "idle"
  /\ i = 1
  /\ results = <<>>
  /\ resolverResults = NoResolved
  /\ executed = <<>>
  /\ backendCalls = <<>>
  /\ kvOn = FALSE
  /\ r2On = FALSE
  /\ kv = NoEntries
  /\ r2 = NoEntries
  /\ now = 0
  /\ spc = "idle"
  /\ si = 0
  /\ words = 0
  /\ current = NoData
  /\ events = <<>>
  /\ chan = "open"
  /\ closeCalls = 0
  /\ writesAfterClose = 0
  /\ failure = "none"
  /\ rejected = FALSE
  /\ ticks = 0
  /\ last = NoOp

\* longest input text and longest formatted tool output, in characters
MaxLen == 6

\* an estimate that rounds down
_estimateTokensFloor(len) == IF len = 0 THEN 0 ELSE len \div 4

\* if (!text) return 0; return Math.ceil(text.length / 4), on the length of
\* the text (the empty string is the only falsy string)
_estimateTokens(len) == IF len = 0 THEN 0 ELSE (len + 3) \div 4

\* JSON.stringify of a string: the two quotes, and one backslash before every
\* character that has to be escaped
StringifyLen(len, escapes) == len + escapes + 2

\* {"role":"user","content":<string>} without the string
UserWrapperLen == 26

\* the serialised system message _convertMemoriesToSystemMessages puts first
\* whenever memories is an array
SystemContextLen == 235

\* memories: "none" (not an array) or "empty" (an array without entries)
MemoryMessagesLen(memories) == IF memories = "empty" THEN SystemContextLen ELSE 0

\* the length of JSON.stringify(processedInput) for a string input: with
\* previous_response_id the input itself, else the array of the memory
\* messages and the user message
ProcessedInputLen(req) ==
  IF req.continuation
    THEN StringifyLen(req.inputLen, req.escapes)
    ELSE LET user == UserWrapperLen + StringifyLen(req.inputLen, req.escapes)
             mem  == MemoryMessagesLen(req.memories)
         IN  2 + (IF mem = 0 THEN 0 ELSE mem + 1) + user

\* the lengths of the texts generateContextualResponse returns
ContextualLengths == {176, 342}

\* the length of the output text: the contextual response when no tool call
\* was extracted, formatToolResults(toolResults) otherwise
OutputLens(tooled) == IF tooled THEN 1..MaxLen ELSE ContextualLengths

\* the usage block of either return statement
UsageOf(req) ==
  [input_tokens  |-> _estimateTokens(ProcessedInputLen(req)),
   output_tokens |-> _estimateTokens(req.outLen),
   total_tokens  |-> _estimateTokens(ProcessedInputLen(req))
                       + _estimateTokens(req.outLen)]

NoUsage == [input_tokens |-> 0, output_tokens |-> 0, total_tokens |-> 0]

UsageRequests ==
  {[fn |-> "usage", inputLen |-> n, escapes |-> e, continuation |-> c,
    memories |-> m, tooled |-> t, outLen |-> o, usage |-> NoUsage,
    done |-> FALSE] :
      n \in 0..MaxLen, e \in 0..1, c \in BOOLEAN, m \in {"none", "empty"},
      t \in BOOLEAN, o \in 1..MaxLen \cup ContextualLengths}

InitUsage ==
  /\ Parked
  /\ probe \in {r \in UsageRequests :
                  r.escapes <= r.inputLen /\ r.outLen \in OutputLens(r.tooled)}

\* the non-streaming return of processResponsesAPIRequest
Respond ==
  /\ probe.fn = "usage"
  /\ ~probe.done
  /\ probe' = [probe EXCEPT !.usage = UsageOf(probe), !.done = TRUE]
  /\ UNCHANGED <<toolCalls, pipeVars, executed, backendCalls, cacheVars, streamVars,
                 ticks, last>>

NextUsage == Respond

SpecUsage == InitUsage /\ [][NextUsage]_vars

\* ------------------------------------------------------------------------
\* Request routing (handleRequest) and the AuthProvider
\* ------------------------------------------------------------------------
NoHeader == [scheme |-> "none", token |-> ""]

\* Authorization headers: absent, or "<scheme> <token>"
AuthHeaders ==
  {NoHeader} \cup [scheme : {"Bearer", "API-Key", "Basic"}, token : {"", "k1", "bad"}]

\* env.VALID_API_KEYS split at the commas, [] when unset
KeyLists == {{}, {"k1"}}

Paths == {"/responses", "/mcp", "/sse", "/stream", "/health", "/", "/admin"}

publicPaths == {"/", "/health"}

\* validateApiKey(request), to the valid flag
validateApiKey(req) ==
  IF req.header = NoHeader THEN FALSE
  ELSE IF req.header.scheme \notin {"Bearer", "API-Key"} THEN FALSE
  ELSE IF req.header.token = "" THEN FALSE
  ELSE IF req.keys = {} /\ req.environment = "development" THEN TRUE
  ELSE req.header.token \in req.keys

\* validateRequest(request), to the valid flag
validateRequest(req) ==
  IF req.path \in publicPaths THEN TRUE
  ELSE IF req.environment = "development" /\ req.skipAuth THEN TRUE
  ELSE validateApiKey(req)

\* the switch of handleRequest: the handler the request is given to
Route(req) ==
  IF req.method = "OPTIONS" THEN "handleOptions"
  ELSE CASE req.path = "/responses" -> "handleResponsesAPI"
         [] req.path = "/mcp"       -> "handleLegacyMCP"
         [] req.path = "/sse"       -> "handleSSE"
         [] req.path = "/stream"    -> "handleStreamableHTTP"
         [] req.path = "/health"    -> "handleHealth"
         [] req.path = "/"          -> "info"
         [] OTHER                   -> "notFound"

\* the handlers that give the body to the orchestrator
ToolHandlers ==
  {"handleResponsesAPI", "handleLegacyMCP", "handleSSE", "handleStreamableHTTP"}

Requests ==
  [fn : {"handleRequest"}, method : {"POST", "OPTIONS"}, path : Paths,
   header : AuthHeaders, environment : {"development", "production"},
   skipAuth : BOOLEAN, keys : KeyLists, wantsTool : BOOLEAN,
   handler : {"none"}, toolsRun : {FALSE}, done : {FALSE}]

InitAuth ==
  /\ Parked
  /\ probe \in Requests

\* handleRequest(request, env, ctx): a handler that reaches the orchestrator
\* executes the tool the body asks for
HandleRequest ==
  /\ probe.fn = "handleRequest"
  /\ ~probe.done
  /\ probe' = [probe EXCEPT !.handler = Route(probe),
                            !.toolsRun = Route(probe) \in ToolHandlers
                                           /\ probe.wantsTool,
                            !.done = TRUE]
  /\ UNCHANGED <<toolCalls, pipeVars, executed, backendCalls, cacheVars, streamVars,
                 ticks, last>>

NextAuth == HandleRequest

SpecAuth == InitAuth /\ [][NextAuth]_vars

\* ------------------------------------------------------------------------
\* CacheManager.getSmartTTL as a function of its inputs and the clock
\* ------------------------------------------------------------------------
\* hours of the day, for new Date().getHours()
Hours == 0..23

\* the six tools of cacheRules, the resolver tools and a name without a rule
TTLTools ==
  {"get_team_info", "get_player_stats", "get_team_roster", "get_schedule",
   "get_standings", "get_live_game", "resolve_team", "resolve_player", "get_weather"}

\* argument objects of a call: none, a team id, a player name
TTLArgs == {"{}", "teamId=147", "name=judge"}

InitTTL ==
  /\ Parked
  /\ probe \in [fn : {"getSmartTTL"}, tool : TTLTools, args : TTLArgs, hour : Hours,
                base : {0}, ttl : {0}, done : {FALSE}]

\* cache.getSmartTTL(tool, args) at an hour of the day; args is handed on to
\* shouldCache, which does not read it
SmartTTL ==
  /\ probe.fn = "getSmartTTL"
  /\ ~probe.done
  /\ probe' = [probe EXCEPT !.base = shouldCache(probe.tool),
                            !.ttl = getSmartTTL(probe.tool, probe.hour),
                            !.done = TRUE]
  /\ UNCHANGED <<toolCalls, pipeVars, executed, backendCalls, cacheVars, streamVars,
                 ticks, last>>

NextTTL == SmartTTL

SpecTTL == InitTTL /\ [][NextTTL]_vars

\* ------------------------------------------------------------------------
\* processToolCalls with the steps of every execution told apart
\* ------------------------------------------------------------------------
\* the steps of _executeSingleTool: await cacheManager.get, await
\* mcpCoordinator.callTool, await cacheManager.set
Stages == <<"lookup", "backend", "write">>

NoneRunning == [k \in {} |-> "lookup"]

\* the loop that starts an execution without waiting for it
DetachedLoop(idx) == [waiting |-> FALSE, idx |-> idx + 1]

\* const result = await this._executeSingleTool(...): the loop stays at the
\* call until the execution has settled
AwaitedLoop(idx) == [waiting |-> TRUE, idx |-> idx]

\* the calls an iteration of the loop of a phase executes
InPhase(phase, call) ==
  IF phase = 1 THEN IsResolver(call.name) ELSE ~IsResolver(call.name)

InitSeq ==
  /\ Parked
  /\ probe \in {[fn |-> "processToolCalls", calls |-> l, phase |-> 1, idx |-> 1,
                 waiting |-> FALSE, running |-> NoneRunning, log |-> <<>>] :
                  l \in CallLists}

\* an iteration on a call of the phase: _executeSingleTool is entered
StartExecution ==
  /\ probe.fn = "processToolCalls"
  /\ probe.phase \in {1, 2}
  /\ ~probe.waiting
  /\ probe.idx <= Len(probe.calls)
  /\ InPhase(probe.phase, probe.calls[probe.idx])
  /\ probe' = [probe EXCEPT
                 !.running = [k \in DOMAIN probe.running \cup {probe.idx} |->
                                IF k = probe.idx THEN "lookup" ELSE probe.running[k]],
                 !.log = Append(probe.log, [ev |-> "start", idx |-> probe.idx]),
                 !.waiting = AwaitedLoop(probe.idx).waiting,
                 !.idx = AwaitedLoop(probe.idx).idx]
  /\ UNCHANGED <<toolCalls, pipeVars, executed, backendCalls, cacheVars, streamVars,
                 ticks, last>>

\* the call k that is running leaves _executeSingleTool (returns or throws)
Settled(k) ==
  [probe EXCEPT
     !.running = [j \in DOMAIN probe.running \ {k} |-> probe.running[j]],
     !.log = Append(probe.log, [ev |-> "end", idx |-> k]),
     !.waiting = IF probe.waiting /\ probe.idx = k THEN FALSE ELSE probe.waiting,
     !.idx = IF probe.waiting /\ probe.idx = k THEN probe.idx + 1 ELSE probe.idx]

\* one await of a running execution resolves: a cache hit returns, a miss goes
\* on to the backend; the backend throws or its result goes on to the cache
\* write; the write returns
StepExecution ==
  /\ probe.fn = "processToolCalls"
  /\ \E k \in DOMAIN probe.running :
       \/ /\ probe.running[k] = "lookup"
          /\ \/ probe' = Settled(k)
             \/ probe' = [probe EXCEPT !.running[k] = "backend"]
       \/ /\ probe.running[k] = "backend"
          /\ \/ probe' = Settled(k)
             \/ probe' = [probe EXCEPT !.running[k] = "write"]
       \/ /\ probe.running[k] = "write"
          /\ probe' = Settled(k)
  /\ UNCHANGED <<toolCalls, pipeVars, executed, backendCalls, cacheVars, streamVars,
                 ticks, last>>

\* an iteration on a call that is not of the phase
SkipCall ==
  /\ probe.fn = "processToolCalls"
  /\ probe.phase \in {1, 2}
  /\ ~probe.waiting
  /\ probe.idx <= Len(probe.calls)
  /\ ~InPhase(probe.phase, probe.calls[probe.idx])
  /\ probe' = [probe EXCEPT !.idx = probe.idx + 1]
  /\ UNCHANGED <<toolCalls, pipeVars, executed, backendCalls, cacheVars, streamVars,
                 ticks, last>>

\* a loop is exhausted: the second loop starts, or results is returned
EndLoop ==
  /\ probe.fn = "processToolCalls"
  /\ probe.phase \in {1, 2}
  /\ ~probe.waiting
  /\ probe.idx > Len(probe.calls)
  /\ probe' = [probe EXCEPT !.phase = probe.phase + 1, !.idx = 1]
  /\ UNCHANGED <<toolCalls, pipeVars, executed, backendCalls, cacheVars, streamVars,
                 ticks, last>>

NextSeq ==
  \/ StartExecution
  \/ StepExecution
  \/ SkipCall
  \/ EndLoop

SpecSeq == InitSeq /\ [][NextSeq]_vars

\* ------------------------------------------------------------------------
\* Tool routing on the backend's responses
\* ------------------------------------------------------------------------
\* tool names of the routed calls: two with a backend mapping, one without
RoutedTools == {"resolve_team", "get_team_roster", "get_weather"}

RoutedLists == SeqsUpTo(RoutedTools, MaxCalls)

InitRoute ==
  /\ Parked
  /\ probe \in {[fn |-> "route", calls |-> l, idx |-> 1, out |-> <<>>] :
                  l \in RoutedLists}

\* one call of the list is routed, the backend answering with some response;
\* the caller's try/catch keeps a throw from reaching the calls that follow
RouteCall ==
  /\ probe.fn = "route"
  /\ probe.idx <= Len(probe.calls)
  /\ \E r \in Responses(probe.calls[probe.idx]) :
       probe' = [probe EXCEPT
                   !.out = Append(probe.out,
                                  [tool |-> probe.calls[probe.idx], response |-> r,
                                   outcome |-> _routeAndExecuteTool(probe.calls[probe.idx], r)]),
                   !.idx = probe.idx + 1]
  /\ UNCHANGED <<toolCalls, pipeVars, executed, backendCalls, cacheVars, streamVars,
                 ticks, last>>

NextRoute == RouteCall

SpecRoute == InitRoute /\ [][NextRoute]_vars

\* ------------------------------------------------------------------------
\* Two runs that call CacheManager.set for one key at the same time
\* ------------------------------------------------------------------------
Writers == {"A", "B"}

RaceKey == _generateKey("get_live_game", NoArgs)

\* the payloads the two writers hold
RacePayloads == {DataOf("get_live_game"), OtherData, Entity(147)}

\* a writer before its call, inside set before the hot write (the payload
\* object is built, with its timestamp), between the two writes, returned
WriterAt(pos, data, t0) == [pc |-> pos, data |-> data, t0 |-> t0]

InitRace ==
  /\ toolCalls = <<>>
  /\ pc = "idle"
  /\ i = 1
  /\ results = <<>>
  /\ resolverResults = NoResolved
  /\ executed = <<>>
  /\ backendCalls = <<>>
  /\ kvOn = TRUE
  /\ r2On = TRUE
  /\ kv = NoEntries
  /\ r2 = NoEntries
  /\ now = 0
  /\ spc = "idle"
  /\ si = 0
  /\ words = 0
  /\ current = NoData
  /\ events = <<>>
  /\ chan = "open"
  /\ closeCalls = 0
  /\ writesAfterClose = 0
  /\ failure = "none"
  /\ rejected = FALSE
  /\ ticks = 0
  /\ last = NoOp
  /\ probe \in {[fn |-> "race",
                 w |-> [x \in Writers |-> WriterAt("call", IF x = "A" THEN d[1] ELSE d[2], 0)],
                 order |-> <<>>] :
                  d \in {e \in RacePayloads \X RacePayloads : e[1] # e[2]}}

\* set(tool, args, data) is entered: key and payload object are built
SetEnter(x) ==
  /\ probe.fn = "race"
  /\ probe.w[x].pc = "call"
  /\ probe' = [probe EXCEPT !.w[x] = WriterAt("hot", probe.w[x].data, now)]
  /\ UNCHANGED <<toolCalls, pipeVars, executed, backendCalls, cacheVars, streamVars,
                 ticks, last>>

\* await this._setHot(key, data)
SetHotStep(x) ==
  /\ probe.fn = "race"
  /\ probe.w[x].pc = "hot"
  /\ kv' = _setHot(kv, kvOn, RaceKey, probe.w[x].data, now)
  /\ probe' = [probe EXCEPT !.w[x].pc = "cold",
                            !.order = Append(probe.order, [writer |-> x, tier |-> "hot"])]
  /\ UNCHANGED <<toolCalls, pipeVars, executed, backendCalls, kvOn, r2On, r2, now,
                 streamVars, ticks, last>>

\* await this._setCold(key, payload); return true
SetColdStep(x) ==
  /\ probe.fn = "race"
  /\ probe.w[x].pc = "cold"
  /\ r2' = _setCold(r2, r2On, RaceKey, probe.w[x].data, probe.w[x].t0)
  /\ probe' = [probe EXCEPT !.w[x].pc = "done",
                            !.order = Append(probe.order, [writer |-> x, tier |-> "cold"])]
  /\ UNCHANGED <<toolCalls, pipeVars, executed, backendCalls, kvOn, r2On, kv, now,
                 streamVars, ticks, last>>

\* a second passes
RaceTick ==
  /\ probe.fn = "race"
  /\ ticks < MaxTicks
  /\ now' = now + 1
  /\ ticks' = ticks + 1
  /\ UNCHANGED <<toolCalls, pipeVars, executed, backendCalls, kvOn, r2On, kv, r2,
                 streamVars, last, probe>>

NextRace ==
  \/ \E x \in Writers : SetEnter(x)
  \/ \E x \in Writers : SetHotStep(x)
  \/ \E x \in Writers : SetColdStep(x)
  \/ RaceTick

SpecRace == InitRace /\ [][NextRace]_vars

\* ------------------------------------------------------------------------
\* Sets and gets on one key, with the time each cached payload was set
\* ------------------------------------------------------------------------
\* seconds that pass between two operations
StaleSteps == {1, hotTTL - 1, hotTTL, coldTTL - 1, coldTTL}

NoGet == [hit |-> FALSE, source |-> "none", origin |-> 0]

\* hotOrigin, coldOrigin: when the set was called whose payload the entry of
\* the tier holds; got: the last get's answer and the origin of its payload
InitStale ==
  /\ toolCalls = <<>>
  /\ pc = "idle"
  /\ i = 1
  /\ results = <<>>
  /\ resolverResults = NoResolved
  /\ executed = <<>>
  /\ backendCalls = <<>>
  /\ kvOn \in BOOLEAN
  /\ r2On \in BOOLEAN
  /\ kv = NoEntries
  /\ r2 = NoEntries
  /\ now = 0
  /\ spc = "idle"
  /\ si = 0
  /\ words = 0
  /\ current = NoData
  /\ events = <<>>
  /\ chan = "open"
  /\ closeCalls = 0
  /\ writesAfterClose = 0
  /\ failure = "none"
  /\ rejected = FALSE
  /\ ticks = 0
  /\ last = NoOp
  /\ probe = [fn |-> "stale", hotOrigin |-> 0, coldOrigin |-> 0, got |-> NoGet]

\* await cacheManager.set(tool, args, data)
StaleSet ==
  /\ probe.fn = "stale"
  /\ \E c \in CacheCalls, f \in FaultSets :
       \E d \in SetPayloads(c.name) :
         LET w == CacheSetF(kv, r2, c.name, c.arguments, d, f)
         IN  /\ kv' = w.kv
             /\ r2' = w.r2
             /\ probe' = [probe EXCEPT
                            !.hotOrigin = IF w.kv # kv THEN now ELSE probe.hotOrigin,
                            !.coldOrigin = IF w.r2 # r2 THEN now ELSE probe.coldOrigin,
                            !.got = NoGet]
  /\ UNCHANGED <<toolCalls, pipeVars, executed, backendCalls, kvOn, r2On, now,
                 streamVars, ticks, last>>

\* await cacheManager.get(tool, args): a cold hit copies the cold payload,
\* and with it the time it was set, to the hot tier
StaleGet ==
  /\ probe.fn = "stale"
  /\ \E c \in CacheCalls, f \in FaultSets :
       LET g == CacheGetF(c.name, c.arguments, f)
       IN  /\ kv' = g.kv
           /\ probe' = [probe EXCEPT
                          !.hotOrigin = IF g.source = "cold" /\ g.kv # kv
                                        THEN probe.coldOrigin ELSE probe.hotOrigin,
                          !.got = [hit |-> g.hit, source |-> g.source,
                                   origin |-> CASE g.source = "hot" -> probe.hotOrigin
                                                [] g.source = "cold" -> probe.coldOrigin
                                                [] OTHER -> 0]]
  /\ UNCHANGED <<toolCalls, pipeVars, executed, backendCalls, kvOn, r2On, r2, now,
                 streamVars, ticks, last>>

\* Date.now() moves on
StaleTick ==
  /\ probe.fn = "stale"
  /\ ticks < MaxTicks
  /\ \E d \in StaleSteps : now' = now + d
  /\ ticks' = ticks + 1
  /\ probe' = [probe EXCEPT !.got = NoGet]
  /\ UNCHANGED <<toolCalls, pipeVars, executed, backendCalls, kvOn, r2On, kv, r2,
                 streamVars, last>>

NextStale ==
  \/ StaleSet
  \/ StaleGet
  \/ StaleTick

SpecStale == InitStale /\ [][NextStale]_vars

\* ------------------------------------------------------------------------
\* The executions of the two modes on one call list and one backend
\* ------------------------------------------------------------------------
\* what the backend answers to each tool, the same in both modes: resolve_team
\* with any of its outcomes, resolve_player with an entity or a failure,
\* get_team_roster with its data or a failure, the other tools as they do
Backends ==
  {[t \in KnownTools \cup {"get_weather"} |->
      CASE t = "resolve_team" -> rt
        [] t = "resolve_player" -> rp
        [] t = "get_team_roster" -> ro
        [] OTHER -> CHOOSE o \in callTool(t) : \A p \in callTool(t) : p.ok => o.ok] :
     rt \in callTool("resolve_team"),
     rp \in {o \in callTool("resolve_player") : o.ok => o.data = Entity(119)},
     ro \in callTool("get_team_roster")}

Execution(toolName, args) == [tool |-> toolName, args |-> args]

\* the resolver map the first loop of processToolCalls leaves behind
RECURSIVE ResolvedBy(_, _, _)
ResolvedBy(calls, backend, map) ==
  IF calls = <<>> THEN map
  ELSE LET toolCall == Head(calls)
           o == backend[toolCall.name]
       IN  ResolvedBy(Tail(calls), backend,
                      IF IsResolver(toolCall.name) /\ o.ok /\ TruthyId(o.data)
                      THEN MapSet(map, EntityTypeOf(toolCall.name), o.data)
                      ELSE map)

\* the executions of one loop of processToolCalls, in order
RECURSIVE LoopExecutions(_, _, _)
LoopExecutions(calls, phase, map) ==
  IF calls = <<>> THEN <<>>
  ELSE LET toolCall == Head(calls)
           rest == LoopExecutions(Tail(calls), phase, map)
       IN  IF ~InPhase(phase, toolCall) THEN rest
           ELSE IF phase = 1
           THEN <<Execution(toolCall.name, toolCall.arguments)>> \o rest
           ELSE <<Execution(toolCall.name, _enrichToolArguments(toolCall, map))>> \o rest

\* the calls of _executeSingleTool that processToolCalls(toolCalls) makes
PipelineExecutions(calls, backend) ==
  LoopExecutions(calls, 1, NoResolved)
    \o LoopExecutions(calls, 2, ResolvedBy(calls, backend, NoResolved))

\* the calls of executeToolFn that processStreamingRequest makes: each call in
\* list order with its own arguments, up to the first one that throws
RECURSIVE StreamExecutions(_, _)
StreamExecutions(calls, backend) ==
  IF calls = <<>> THEN <<>>
  ELSE LET toolCall == Head(calls)
       IN  <<Execution(toolCall.name, toolCall.arguments)>>
             \o (IF backend[toolCall.name].ok
                 THEN StreamExecutions(Tail(calls), backend)
                 ELSE <<>>)

InitModes ==
  /\ Parked
  /\ probe \in {[fn |-> "modes", calls |-> l, backend |-> b, plain |-> <<>>,
                 streamed |-> <<>>, done |-> FALSE] :
                  l \in CallLists, b \in Backends}

\* processResponsesAPIRequest with stream false and with stream true
RunBothModes ==
  /\ probe.fn = "modes"
  /\ ~probe.done
  /\ probe' = [probe EXCEPT !.plain = PipelineExecutions(probe.calls, probe.backend),
                            !.streamed = StreamExecutions(probe.calls, probe.backend),
                            !.done = TRUE]
  /\ UNCHANGED <<toolCalls, pipeVars, executed, backendCalls, cacheVars, streamVars,
                 ticks, last>>

NextModes == RunBothModes

SpecModes == InitModes /\ [][NextModes]_vars

\* ------------------------------------------------------------------------
\* Extraction on the processed input (input with the memory messages)
\* ------------------------------------------------------------------------
\* the memories of a request: not an array, an array without entries, an
\* array with { key: "favorite_team", value: "Yankees" }
MemoryKinds == {"none", "empty", "team"}

\* the patterns found in the lower-cased serialisation of the system messages
\* made from the memories: the context message reads "... ask about current
\* stats, scores, or team information.", a memory message
\* "USER_MEMORY: favorite_team = Yankees"
MemoryPatterns(memories) ==
  CASE memories = "none" -> {}
    [] memories = "empty" -> {"info", "stats", "team info"}
    [] memories = "team" -> {"info", "stats", "team info", "yankees"}

\* the patterns found in JSON.stringify(processInputWithMemories(input,
\* memories, previous_response_id)): with previous_response_id the input's
\* own, else those of the memory messages and of the user message
ProcessedText(text, memories, continuation) ==
  IF continuation THEN text ELSE text \cup MemoryPatterns(memories)

\* tool lists in the { type: 'function', function: { name } } form
FunctionDeclarations == {d \in Declarations : \A n \in DOMAIN d : d[n] # "plain"}

InitMemories ==
  /\ Parked
  /\ probe \in {[fn |-> "memories", text |-> t, tools |-> ToolList(d), memories |-> m,
                 continuation |-> c, out |-> <<>>, bare |-> <<>>, done |-> FALSE] :
                  t \in Texts, d \in FunctionDeclarations,
                  m \in MemoryKinds \ {"none"}, c \in BOOLEAN}

\* extractToolCalls(processedInput, tools) for the request, and for the
\* request without its memories
ExtractProcessed ==
  /\ probe.fn = "memories"
  /\ ~probe.done
  /\ probe' = [probe EXCEPT
                 !.out = extractToolCalls(
                           ProcessedText(probe.text, probe.memories, probe.continuation),
                           probe.tools),
                 !.bare = extractToolCalls(
                            ProcessedText(probe.text, "none", probe.continuation),
                            probe.tools),
                 !.done = TRUE]
  /\ UNCHANGED <<toolCalls, pipeVars, executed, backendCalls, cacheVars, streamVars,
                 ticks, last>>

NextMemories == ExtractProcessed

SpecMemories == InitMemories /\ [][NextMemories]_vars

\* ------------------------------------------------------------------------
\* _generateKey on two calls whose values may hold the separators
\* ------------------------------------------------------------------------
\* argument values: plain ones and one that holds "|" and ":"
SeparatorValues == {"a", "1", "a|teamId:1"}

SeparatorKeySeqs == {<<>>, <<"name">>, <<"teamId">>, <<"name", "teamId">>, <<"teamId", "name">>}

SeparatorObjects ==
  UNION {{[keys |-> q, val |-> v] : v \in [{q[n] : n \in 1..Len(q)} -> SeparatorValues]} :
           q \in SeparatorKeySeqs}

InitPairs ==
  /\ Parked
  /\ probe \in {[fn |-> "keys", toolA |-> ta, toolB |-> tb, a |-> a, b |-> b,
                 keyA |-> "", keyB |-> "", done |-> FALSE] :
                  ta \in {"get_team_info", "get_team_roster"},
                  tb \in {"get_team_info", "get_team_roster"},
                  a \in SeparatorObjects, b \in SeparatorObjects}

\* this._generateKey(tool, args) for each of the two calls
GeneratePair ==
  /\ probe.fn = "keys"
  /\ ~probe.done
  /\ probe' = [probe EXCEPT !.keyA = _generateKeyOf(probe.toolA, probe.a),
                            !.keyB = _generateKeyOf(probe.toolB, probe.b),
                            !.done = TRUE]
  /\ UNCHANGED <<toolCalls, pipeVars, executed, backendCalls, cacheVars, streamVars,
                 ticks, last>>

NextPairs == GeneratePair

SpecPairs == InitPairs /\ [][NextPairs]_vars

\* ------------------------------------------------------------------------
\* The legacy SSE endpoint (src/unnamed/part_005): handleSSE starts
\* processSSERequest on the writer of a TransformStream without awaiting it
\* ------------------------------------------------------------------------
\* the events of the legacy stream, by their event: line
SSEEvents == {"connected", "data", "complete", "processing", "error"}

\* the inputs of a run: the tool of the query string, whether args parsed to
\* null (?args=null), whether the cache tiers are bound and hold the result
SSEInputs ==
  {[tool |-> t, argsNull |-> n, tiers |-> b, cached |-> c] :
     t \in RoutedTools, n \in BOOLEAN,
     b \in BOOLEAN, c \in BOOLEAN}

\* processSSERequest is called: nothing written, the writer open, the promise
\* pending
InitSSE ==
  /\ Parked
  /\ probe \in {[fn |-> "processSSERequest", tool |-> x.tool, argsNull |-> x.argsNull,
                 tiers |-> x.tiers, cached |-> x.cached, pos |-> "connected",
                 events |-> <<>>, writer |-> "open", closeCalls |-> 0,
                 isError |-> FALSE, throwing |-> FALSE, promise |-> "pending"] :
                  x \in {y \in SSEInputs : y.cached => (y.tiers /\ ~y.argsNull)}}

\* await writer.write(event) inside the try block: the event is enqueued and
\* control goes on, or the write rejects (the stream is no longer writable)
\* and control enters the catch block
SSEWrite(ev, next) ==
  IF probe.writer = "open"
  THEN [probe EXCEPT !.events = Append(probe.events, ev), !.pos = next]
  ELSE [probe EXCEPT !.pos = "catch"]

\* writer.close(): one more call; it closes a writable stream and rejects on
\* a closed or errored one
SSEClosed(p) ==
  [p EXCEPT !.closeCalls = p.closeCalls + 1,
            !.writer = IF p.writer = "open" THEN "closed" ELSE p.writer]

\* the client goes away while the run is in progress: the stream errors
ReaderCancels ==
  /\ probe.fn = "processSSERequest"
  /\ probe.pos # "done"
  /\ probe.writer = "open"
  /\ probe' = [probe EXCEPT !.writer = "errored"]
  /\ UNCHANGED <<toolCalls, pipeVars, executed, backendCalls, cacheVars, streamVars,
                 ticks, last>>

SSEConnected ==
  /\ probe.fn = "processSSERequest"
  /\ probe.pos = "connected"
  /\ probe' = SSEWrite("connected", "lookup")
  /\ UNCHANGED <<toolCalls, pipeVars, executed, backendCalls, cacheVars, streamVars,
                 ticks, last>>

\* const cached = await cache.get(tool, args): _generateKey throws on null
\* args (Object.keys(null)) before get's own try block; otherwise a hit or null
SSECacheGet ==
  /\ probe.fn = "processSSERequest"
  /\ probe.pos = "lookup"
  /\ probe' = [probe EXCEPT !.pos = IF probe.argsNull THEN "catch"
                                    ELSE IF probe.cached THEN "hit_data"
                                    ELSE "processing"]
  /\ UNCHANGED <<toolCalls, pipeVars, executed, backendCalls, cacheVars, streamVars,
                 ticks, last>>

SSEHitData ==
  /\ probe.fn = "processSSERequest"
  /\ probe.pos = "hit_data"
  /\ probe' = SSEWrite("data", "hit_complete")
  /\ UNCHANGED <<toolCalls, pipeVars, executed, backendCalls, cacheVars, streamVars,
                 ticks, last>>

SSEHitComplete ==
  /\ probe.fn = "processSSERequest"
  /\ probe.pos = "hit_complete"
  /\ probe' = SSEWrite("complete", "hit_close")
  /\ UNCHANGED <<toolCalls, pipeVars, executed, backendCalls, cacheVars, streamVars,
                 ticks, last>>

\* await writer.close(); return; inside the try block: the finally block
\* runs on the return, the catch block on a rejected close
SSEHitClose ==
  /\ probe.fn = "processSSERequest"
  /\ probe.pos = "hit_close"
  /\ probe' = [SSEClosed(probe) EXCEPT
                 !.pos = IF probe.writer = "open" THEN "finally" ELSE "catch"]
  /\ UNCHANGED <<toolCalls, pipeVars, executed, backendCalls, cacheVars, streamVars,
                 ticks, last>>

SSEProcessing ==
  /\ probe.fn = "processSSERequest"
  /\ probe.pos = "processing"
  /\ probe' = SSEWrite("processing", "callTool")
  /\ UNCHANGED <<toolCalls, pipeVars, executed, backendCalls, cacheVars, streamVars,
                 ticks, last>>

\* const result = await orchestrator.callTool(tool, args): the orchestrator
\* catches what the tool throws and answers isError: true
SSECallTool ==
  /\ probe.fn = "processSSERequest"
  /\ probe.pos = "callTool"
  /\ \E o \in callTool(probe.tool) :
       probe' = [probe EXCEPT !.isError = ~o.ok,
                              !.pos = IF o.ok THEN "cache_set" ELSE "tool_error"]
  /\ UNCHANGED <<toolCalls, pipeVars, executed, backendCalls, cacheVars, streamVars,
                 ticks, last>>

\* if (result.isError) { await writer.write(error event) }: control then
\* leaves the if statement for the completion write
SSEToolError ==
  /\ probe.fn = "processSSERequest"
  /\ probe.pos = "tool_error"
  /\ probe' = SSEWrite("error", "complete")
  /\ UNCHANGED <<toolCalls, pipeVars, executed, backendCalls, cacheVars, streamVars,
                 ticks, last>>

\* await cache.set(tool, args, data): stores when the tiers are bound, and
\* never throws
SSECacheSet ==
  /\ probe.fn = "processSSERequest"
  /\ probe.pos = "cache_set"
  /\ probe' = [probe EXCEPT !.cached = probe.tiers, !.pos = "live_data"]
  /\ UNCHANGED <<toolCalls, pipeVars, executed, backendCalls, cacheVars, streamVars,
                 ticks, last>>

SSELiveData ==
  /\ probe.fn = "processSSERequest"
  /\ probe.pos = "live_data"
  /\ probe' = SSEWrite("data", "complete")
  /\ UNCHANGED <<toolCalls, pipeVars, executed, backendCalls, cacheVars, streamVars,
                 ticks, last>>

SSEComplete ==
  /\ probe.fn = "processSSERequest"
  /\ probe.pos = "complete"
  /\ probe' = SSEWrite("complete", "finally")
  /\ UNCHANGED <<toolCalls, pipeVars, executed, backendCalls, cacheVars, streamVars,
                 ticks, last>>

\* catch (error) { await writer.write(error event) }: a rejected write
\* leaves the catch block as an exception, after finally has run
SSECatch ==
  /\ probe.fn = "processSSERequest"
  /\ probe.pos = "catch"
  /\ probe' = IF probe.writer = "open"
              THEN [probe EXCEPT !.events = Append(probe.events, "error"),
                                 !.pos = "finally"]
              ELSE [probe EXCEPT !.throwing = TRUE, !.pos = "finally"]
  /\ UNCHANGED <<toolCalls, pipeVars, executed, backendCalls, cacheVars, streamVars,
                 ticks, last>>

\* finally { await writer.close() }: a rejected close, or the exception that
\* left the catch block, rejects the promise of processSSERequest
SSEFinally ==
  /\ probe.fn = "processSSERequest"
  /\ probe.pos = "finally"
  /\ probe' = IF probe.writer = "open" /\ ~probe.throwing
              THEN [SSEClosed(probe) EXCEPT !.promise = "resolved", !.pos = "done"]
              ELSE [SSEClosed(probe) EXCEPT !.promise = "rejected",
                                            !.pos = "handleSSE_catch"]
  /\ UNCHANGED <<toolCalls, pipeVars, executed, backendCalls, cacheVars, streamVars,
                 ticks, last>>

\* handleSSE: processSSERequest(...).catch(error => { writer.close() })
SSEHandleCatch ==
  /\ probe.fn = "processSSERequest"
  /\ probe.pos = "handleSSE_catch"
  /\ probe' = [SSEClosed(probe) EXCEPT !.pos = "done"]
  /\ UNCHANGED <<toolCalls, pipeVars, executed, backendCalls, cacheVars, streamVars,
                 ticks, last>>

NextSSE ==
  \/ SSEConnected
  \/ SSECacheGet
  \/ SSEHitData
  \/ SSEHitComplete
  \/ SSEHitClose
  \/ SSEProcessing
  \/ SSECallTool
  \/ SSEToolError
  \/ SSECacheSet
  \/ SSELiveData
  \/ SSEComplete
  \/ SSECatch
  \/ SSEFinally
  \/ SSEHandleCatch
  \/ ReaderCancels

SpecSSE == InitSSE /\ [][NextSSE]_vars

\* ------------------------------------------------------------------------
\* RateLimiter (src/unnamed/part_005): one Durable Object whose fetch is
\* entered for one request at a time, on a clock of whole seconds
\* ------------------------------------------------------------------------
\* the largest limit and window of a run, and the last second of the clock
MaxLimit == 3

MaxWindow == 2

MaxClock == 6

\* variant: the limit test lets a request through when the count equals limit
fetchOffByOne(currentCount, lastReset, currentTime, limit, window) ==
  IF lastReset < currentTime - window
  THEN [status |-> 200, allowed |-> TRUE, remaining |-> limit - 1,
        count |-> 1, reset |-> currentTime]
  ELSE IF currentCount > limit
  THEN [status |-> 429, allowed |-> FALSE, remaining |-> 0,
        count |-> currentCount, reset |-> lastReset]
  ELSE [status |-> 200, allowed |-> TRUE, remaining |-> limit - currentCount - 1,
        count |-> currentCount + 1, reset |-> lastReset]

\* RateLimiter.fetch on the stored count and reset time (0 when absent): the
\* response and the values left in storage. windowStart = currentTime - window;
\* an expired window stores count 1 and the current time; a full window
\* answers 429 and stores nothing; otherwise the count is incremented
fetch(currentCount, lastReset, currentTime, limit, window) ==
  IF lastReset < currentTime - window
  THEN [status |-> 200, allowed |-> TRUE, remaining |-> limit - 1,
        count |-> 1, reset |-> currentTime]
  ELSE IF currentCount >= limit
  THEN [status |-> 429, allowed |-> FALSE, remaining |-> 0,
        count |-> currentCount, reset |-> lastReset]
  ELSE [status |-> 200, allowed |-> TRUE, remaining |-> limit - currentCount - 1,
        count |-> currentCount + 1, reset |-> lastReset]

\* no request answered yet
NoAnswer == [status |-> 0, allowed |-> FALSE, remaining |-> 0, count |-> 0, reset |-> 0,
             time |-> 0]

\* an empty storage for the key, and the limit and window every request of
\* the run carries
InitRate ==
  /\ Parked
  /\ probe \in {[fn |-> "RateLimiter", limit |-> l, window |-> w, time |-> 0,
                 count |-> 0, reset |-> 0, allowedInWindow |-> 0, resets |-> 0,
                 answer |-> NoAnswer] :
                  l \in 1..MaxLimit, w \in 1..MaxWindow}

\* one request is handled to its response; the answer keeps the storage and
\* the clock the request found
RateFetch ==
  /\ probe.fn = "RateLimiter"
  /\ LET r == fetch(probe.count, probe.reset, probe.time, probe.limit, probe.window)
         isReset == probe.reset < probe.time - probe.window
     IN probe' = [probe EXCEPT
                    !.count = r.count,
                    !.reset = r.reset,
                    !.allowedInWindow = IF isReset THEN 1
                                        ELSE IF r.allowed THEN probe.allowedInWindow + 1
                                        ELSE probe.allowedInWindow,
                    !.resets = IF isReset THEN probe.resets + 1 ELSE probe.resets,
                    !.answer = [status |-> r.status, allowed |-> r.allowed,
                                remaining |-> r.remaining, count |-> probe.count,
                                reset |-> probe.reset, time |-> probe.time]]
  /\ UNCHANGED <<toolCalls, pipeVars, executed, backendCalls, cacheVars, streamVars,
                 ticks, last>>

\* Math.floor(Date.now() / 1000) moves to the next second
RateTick ==
  /\ probe.fn = "RateLimiter"
  /\ probe.time < MaxClock
  /\ probe' = [probe EXCEPT !.time = probe.time + 1]
  /\ UNCHANGED <<toolCalls, pipeVars, executed, backendCalls, cacheVars, streamVars,
                 ticks, last>>

NextRate ==
  \/ RateFetch
  \/ RateTick

SpecRate == InitRate /\ [][NextRate]_vars

\* ------------------------------------------------------------------------
\* Properties of processToolCalls
\* ------------------------------------------------------------------------
ResultIdx == DOMAIN results

\* the calls of the input that are resolver calls, by the tool name
ResolverIdx == {k \in DOMAIN toolCalls : toolCalls[k].name \in ResolverTools}

DataIdx == DOMAIN toolCalls \ ResolverIdx

\* C1: in the list built by processToolCalls every resolver result precedes
\* every non-resolver result, results of one phase keep the relative order of
\* the input calls, and the returned list holds the result of every resolver
\* call of the input.
PhaseOrdering ==
  /\ \A a, b \in ResultIdx :
       a < b =>
         /\ ~(results[a].tool \notin ResolverTools /\ results[b].tool \in ResolverTools)
         /\ ((results[a].tool \in ResolverTools) = (results[b].tool \in ResolverTools)
               => results[a].idx < results[b].idx)
  /\ \A a \in ResultIdx : results[a].tool = toolCalls[results[a].idx].name
  /\ pc = "done" => \A k \in ResolverIdx : \E a \in ResultIdx : results[a].idx = k

\* a finished run whose input has a non-resolver call before a resolver call:
\* the resolver result comes first in the returned list
PhaseOrderingWitness ==
  /\ pc = "done"
  /\ Len(toolCalls) = 2
  /\ 1 \in DataIdx
  /\ 2 \in ResolverIdx
  /\ Len(results) = 2
  /\ results[1].idx = 2
  /\ results[2].idx = 1

DataExecutions == {a \in DOMAIN executed : executed[a].tool \notin ResolverTools}

OwnArgs(a) == toolCalls[executed[a].idx].arguments

\* C3 (as claimed): every argument key present in a non-resolver call's own
\* arguments reaches the executor with the same value.
ExplicitArgsPreserved ==
  \A a \in DataExecutions :
    \A k \in DOMAIN OwnArgs(a) :
      k \in DOMAIN executed[a].args /\ executed[a].args[k] = OwnArgs(a)[k]

\* the entity type a tool requires, as the spec's table states it
RequiredType(toolName) ==
  IF toolName \in {"get_team_info", "get_team_roster", "get_schedule"} THEN {"team"}
  ELSE IF toolName = "get_player_stats" THEN {"player"}
  ELSE {}

ResolverOf(entityType) == IF entityType = "team" THEN "resolve_team" ELSE "resolve_player"

IdKey(entityType) == IF entityType = "team" THEN "teamId" ELSE "playerId"

\* decimal rendering of the ids the backend hands out
IdText(n) == CASE n = 147 -> "147" [] n = 119 -> "119" [] n = 0 -> "0"

\* the resolver results of a type that succeeded with a (non-zero) id
Resolved(entityType) ==
  {a \in ResultIdx : /\ results[a].tool = ResolverOf(entityType)
                     /\ results[a].success
                     /\ results[a].result.hasId
                     /\ results[a].result.id # 0}

LastResolved(entityType) ==
  CHOOSE a \in Resolved(entityType) : \A b \in Resolved(entityType) : b <= a

WithId(entityType) ==
  {a \in ResultIdx : /\ results[a].tool = ResolverOf(entityType)
                     /\ results[a].success
                     /\ results[a].result.hasId}

\* C5: when every resolver call of an entity type failed or returned a result
\* without id, the non-resolver calls are executed all the same, with their
\* own arguments (no id injected for that type), and each one's result records
\* its own outcome.
ResolverFailureDoesNotBlock ==
  /\ \A a \in DataExecutions :
       /\ \A t \in RequiredType(executed[a].tool) :
            WithId(t) = {} => executed[a].args = OwnArgs(a)
       /\ results[a].idx = executed[a].idx
       /\ results[a].success = executed[a].ok
  /\ pc = "done" => \A k \in DataIdx : \E a \in DataExecutions : executed[a].idx = k

\* resolve_team threw, get_team_roster ran without teamId and succeeded
ResolverFailureDoesNotBlockWitness ==
  /\ pc = "done"
  /\ \E a \in ResultIdx : results[a].tool = "resolve_team" /\ ~results[a].success
  /\ WithId("team") = {}
  /\ \E a \in DataExecutions :
       /\ executed[a].tool = "get_team_roster"
       /\ executed[a].args = NoArgs
       /\ results[a].success

\* ------------------------------------------------------------------------
\* Properties of processStreamingRequest
\* ------------------------------------------------------------------------
EventIdx == DOMAIN events

Positions(type) == {p \in EventIdx : events[p].type = type}

Count(type) == Cardinality(Positions(type))

\* C6: response.error is written at most once, response.completed is never
\* written after (or together with) response.error, and a run in which
\* nothing failed writes response.completed exactly once, as its last event.
TerminalEventsExclusive ==
  /\ Count("response.error") <= 1
  /\ Count("response.completed") <= 1
  /\ Positions("response.error") = {} \/ Positions("response.completed") = {}
  /\ \A p \in Positions("response.error") : p = Len(events)
  /\ (spc = "done" /\ failure = "none") =>
       /\ Count("response.completed") = 1
       /\ events[Len(events)].type = "response.completed"

\* a finished run that wrote response.error after some tool activity
TerminalEventsExclusiveWitness ==
  /\ spc = "done"
  /\ failure = "tool"
  /\ Count("tool_result") >= 1
  /\ events[Len(events)].type = "response.error"

\* C7: writer.close() is called exactly once on every exit path, including
\* the path on which the write of the error event itself fails; nothing is
\* written after the close and the channel is never left open.
ClosedExactlyOnce ==
  /\ closeCalls <= 1
  /\ writesAfterClose = 0
  /\ (spc = "done") = (closeCalls = 1)
  /\ spc = "done" => chan \in {"closed", "errored"}
  /\ chan = "closed" => closeCalls = 1

\* the exit path on which the error event could not be written
ClosedExactlyOnceWitness ==
  /\ spc = "done"
  /\ failure = "emit"
  /\ rejected
  /\ Count("response.error") = 0
  /\ Count("tool_call") >= 1
  /\ closeCalls = 1

\* C8 (as claimed): a tool execution failure writes no response.error and
\* does not abort the run: only a failed write produces response.error, and a
\* run whose writes all succeeded reports every call in a tool_result and
\* ends with response.completed.
ToolFailureNotStreamFailure ==
  /\ Count("response.error") > 0 => failure = "emit"
  /\ (spc = "done" /\ failure # "emit") =>
       /\ Count("response.completed") = 1
       /\ Count("tool_result") = Len(toolCalls)

\* C9: response.created is the first event written and response.in_progress
\* the second, each is written once, and so both precede every tool_call,
\* tool_result and output_text.delta event.
CreatedThenInProgress ==
  /\ Len(events) >= 1 => events[1].type = "response.created"
  /\ Len(events) >= 2 => events[2].type = "response.in_progress"
  /\ Positions("response.created") \subseteq {1}
  /\ Positions("response.in_progress") \subseteq {2}
  /\ \A p \in Positions("tool_call") \cup Positions("tool_result")
               \cup Positions("response.output_text.delta") : p > 2

\* a finished run with tool activity after the two opening events
CreatedThenInProgressWitness ==
  /\ spc = "done"
  /\ Count("response.created") = 1
  /\ Count("response.in_progress") = 1
  /\ Count("tool_call") >= 2
  /\ Count("response.output_text.delta") >= 1

\* C10 (as claimed): every tool_call event is followed by the tool_result of
\* the same call, the events of call k precede the tool_call of call k + 1,
\* and a run whose writes all succeeded leaves no tool_call without result.
ToolEventsPaired ==
  /\ \A p \in Positions("tool_call") :
       p < Len(events) =>
         /\ events[p + 1].type = "tool_result"
         /\ events[p + 1].idx = events[p].idx
         /\ events[p + 1].tool = events[p].tool
  /\ \A p, q \in EventIdx :
       (p < q /\ events[p].idx > 0 /\ events[q].idx > 0) => events[p].idx <= events[q].idx
  /\ (spc = "done" /\ failure # "emit") =>
       \A p \in Positions("tool_call") : p < Len(events)

\* the event type a run without tool calls writes at position p: created,
\* in_progress, one delta per word of the static message, completed
StaticSequence(p) ==
  IF p = 1 THEN CreatedEvent
  ELSE IF p = 2 THEN InProgressEvent
  ELSE IF p <= 24 THEN DeltaEvent
  ELSE CompletedEvent

\* C11: a streaming run with no tool calls writes response.created,
\* response.in_progress, the 22 deltas of the static message and
\* response.completed, in that order and nothing else (a run cut short by a
\* failed write has written a prefix of that sequence); it writes no
\* tool_call and no tool_result and never reaches the backend or the cache.
NoToolStream ==
  Len(toolCalls) = 0 =>
    /\ Count(ToolCallEvent) = 0
    /\ Count(ToolResultEvent) = 0
    /\ backendCalls = <<>>
    /\ executed = <<>>
    /\ kv = NoEntries /\ r2 = NoEntries
    /\ Len(events) <= 25
    /\ \A p \in EventIdx : events[p].type = StaticSequence(p)
    /\ (spc = "done" /\ failure = "none") =>
          /\ Len(events) = 25
          /\ Count(DeltaEvent) = 22

NoToolStreamWitness ==
  /\ Len(toolCalls) = 0
  /\ spc = "done"
  /\ failure = "none"
  /\ Count(DeltaEvent) = 22
  /\ events[Len(events)].type = CompletedEvent

\* ------------------------------------------------------------------------
\* Properties of the cache (SpecCache)
\* ------------------------------------------------------------------------
\* the one cache key of SpecCache
TheKey == _generateKey((CHOOSE c \in CacheCalls : TRUE).name, (CHOOSE c \in CacheCalls : TRUE).arguments)

\* seconds since the entry of a tier was written
HotAge == now - kv[TheKey].timestamp

ColdAge == now - r2[TheKey].timestamp

\* the step is an ExecuteOp, a CacheGetOp, a CacheSetOp
Executes == ticks' = ticks /\ last'.op = "execute"

Gets == ticks' = ticks /\ last'.op = "get"

Sets == ticks' = ticks /\ last'.op = "set"

\* C12: with at least one tier configured and answering, an execution that
\* fetched from the backend leaves its payload in every configured tier stamped
\* with the time of the execution, and the next execution of the same
\* (tool, args), issued while that stamp is younger than the hot TTL (hot tier
\* configured) or the cold TTL (cold tier configured), returns that payload
\* without reaching the backend.
CachedWithinTTL ==
  [][ /\ (Executes /\ last'.fetched /\ last'.ok /\ last'.faults = {}) =>
           /\ kvOn => /\ TheKey \in DOMAIN kv'
                       /\ kv'[TheKey] = [payload |-> last'.data, timestamp |-> now]
           /\ r2On => /\ TheKey \in DOMAIN r2'
                       /\ r2'[TheKey] = [payload |-> last'.data, timestamp |-> now]
      /\ ( /\ Executes
           /\ last.op = "execute" /\ last.fetched /\ last.ok /\ last.faults = {}
           /\ last'.faults = {}
           /\ \/ kvOn /\ TheKey \in DOMAIN kv /\ HotAge < hotTTL
              \/ r2On /\ TheKey \in DOMAIN r2 /\ ColdAge < coldTTL ) =>
           /\ last'.ok
           /\ last'.hit
           /\ ~last'.fetched
           /\ last'.data = last.data
    ]_vars

CachedWithinTTLWitness ==
  /\ last.op = "execute"
  /\ last.after = "fetched"
  /\ last.hit /\ ~last.fetched
  /\ last.faults = {}
  /\ last.data = DataOf(last.tool)
  /\ kvOn /\ ~r2On
  /\ HotAge > 0

\* C13: one execution calls CacheManager.set exactly once when the backend
\* call succeeded and not at all on a cache hit or when the backend call
\* failed: without a set call the cold tier is left as it was and the hot tier
\* changes only by the promotion of the cold entry that was hit, so no failed
\* result reaches either tier.
OneSetPerFetch ==
  [][ Executes =>
        /\ last'.setCalls = (IF last'.fetched /\ last'.ok THEN 1 ELSE 0)
        /\ last'.hit => (last'.setCalls = 0 /\ ~last'.fetched /\ last'.ok)
        /\ ~last'.ok => last'.setCalls = 0
        /\ last'.setCalls = 0 =>
             /\ r2' = r2
             /\ kv' # kv => /\ last'.hit
                            /\ kv'[TheKey] = [payload |-> r2[TheKey].payload, timestamp |-> now]
    ]_vars

OneSetPerFetchWitness ==
  /\ last.op = "execute"
  /\ last.fetched /\ last.ok
  /\ last.setCalls = 1
  /\ last.after = "failed"
  /\ r2On /\ r2[TheKey] = [payload |-> last.data, timestamp |-> now]

\* ------------------------------------------------------------------------
\* Properties of _generateKey (SpecKey)
\* ------------------------------------------------------------------------
\* C14: two argument objects that hold the same values under the same keys
\* get the same cache key for the same tool, whatever the order their keys
\* were inserted in; that key is the one computed from the key set alone.
KeyIgnoresInsertionOrder ==
  (probe.fn = "_generateKey" /\ probe.done /\ probe.a.val = probe.b.val) =>
    /\ probe.keyA = probe.keyB
    /\ probe.keyA = _generateKey(probe.tool, probe.a.val)

KeyIgnoresInsertionOrderWitness ==
  /\ probe.fn = "_generateKey"
  /\ probe.done
  /\ probe.a.val = probe.b.val
  /\ Len(probe.a.keys) = 3
  /\ probe.a.keys # probe.b.keys
  /\ probe.a.keys[1] = probe.b.keys[3]
  /\ probe.keyA = probe.keyB

\* C15: a get that reports source hot returns the hot entry's payload and
\* that entry is younger than the hot TTL; when the hot entry is hotTTL
\* seconds old or older and the cold tier does not hold the key, get returns
\* absent (so a get at T + hotTTL + 1 after a set at T into the hot tier alone
\* finds nothing).
HotEntryExpires ==
  [][ Gets =>
        /\ last'.source = "hot" =>
             /\ kvOn /\ TheKey \in DOMAIN kv
             /\ HotAge < hotTTL
             /\ last'.age = HotAge
             /\ last'.data = kv[TheKey].payload
        /\ ( /\ TheKey \in DOMAIN kv
             /\ HotAge >= hotTTL
             /\ TheKey \notin DOMAIN r2 ) => ~last'.hit
    ]_vars

HotEntryExpiresWitness ==
  /\ last.op = "get"
  /\ last.after = "stored"
  /\ last.faults = {}
  /\ ~last.hit
  /\ kvOn /\ ~r2On
  /\ TheKey \in DOMAIN kv
  /\ HotAge = hotTTL + 1

\* C16: with both tiers configured and answering, a set stamps both entries
\* with its time T; a get that follows it hotTTL seconds later or more, and
\* less than coldTTL seconds later, is a cold hit that returns the payload
\* with source cold and rewrites the hot entry with that payload; the get that
\* follows the cold hit less than hotTTL seconds later reports source hot with
\* the same payload (set at T, get at T + hotTTL + 1, get at T + hotTTL + 2).
ColdHitPromotes ==
  [][ /\ (Sets /\ last'.ok /\ kvOn /\ r2On) =>
           /\ TheKey \in DOMAIN kv' /\ TheKey \in DOMAIN r2'
           /\ kv'[TheKey] = [payload |-> last'.data, timestamp |-> now]
           /\ r2'[TheKey] = [payload |-> last'.data, timestamp |-> now]
      /\ ( /\ Gets /\ last'.faults = {}
           /\ kvOn /\ r2On
           /\ last.op = "set" /\ last.ok
           /\ ColdAge >= hotTTL /\ ColdAge < coldTTL ) =>
           /\ last'.hit
           /\ last'.source = "cold"
           /\ last'.data = last.data
           /\ kv'[TheKey] = [payload |-> last.data, timestamp |-> now]
           /\ r2' = r2
      /\ ( /\ Gets /\ last'.faults = {}
           /\ kvOn /\ r2On
           /\ last.op = "get" /\ last.source = "cold"
           /\ HotAge < hotTTL ) =>
           /\ last'.hit
           /\ last'.source = "hot"
           /\ last'.data = last.data
    ]_vars

ColdHitPromotesWitness ==
  /\ kvOn /\ r2On
  /\ last.op = "get"
  /\ last.after = "cold"
  /\ last.source = "hot"
  /\ last.faults = {}
  /\ last.data = r2[TheKey].payload
  /\ ColdAge = hotTTL + 2
  /\ HotAge = 1

\* C17: in set, a tier write that throws does not keep the other tier from
\* being written: when the hot write throws the cold entry is written all the
\* same, when the cold write throws the hot entry stays written, and set
\* does not throw.
SetTiersIndependent ==
  [][ Sets =>
        /\ ~last'.threw
        /\ (kvOn /\ r2On /\ last'.faults = {"kv.put"}) =>
             /\ TheKey \in DOMAIN r2'
             /\ r2'[TheKey] = [payload |-> last'.data, timestamp |-> now]
        /\ (kvOn /\ r2On /\ last'.faults = {"r2.put"}) =>
             /\ TheKey \in DOMAIN kv'
             /\ kv'[TheKey] = [payload |-> last'.data, timestamp |-> now]
    ]_vars

\* a tier holds no entry for the key that is younger than its TTL
HotGone == ~kvOn \/ TheKey \notin DOMAIN kv \/ HotAge >= hotTTL

ColdGone == ~r2On \/ TheKey \notin DOMAIN r2 \/ ColdAge >= coldTTL

Effective(faults) ==
  {f \in faults : (f \in {"kv.get", "kv.put"} /\ kvOn) \/ (f \in {"r2.get", "r2.put"} /\ r2On)}

\* C19: a tier that is not configured is never written and never reported as
\* the source of a hit, and its absence makes neither get nor set fail; the
\* configured tier serves on its own (a set is stored and reports success, a
\* get hits exactly while the entry is younger than that tier's TTL); with no
\* tier configured every get is absent and every execution reaches past the
\* cache.
DegradedMode ==
  [][ /\ ~kvOn => (kv' = NoEntries /\ last'.source # "hot")
      /\ ~r2On => (r2' = NoEntries /\ last'.source # "cold")
      /\ (Gets \/ Sets) => ~last'.threw
      /\ (Sets /\ Effective(last'.faults) = {}) =>
           /\ last'.ok
           /\ kvOn => /\ TheKey \in DOMAIN kv'
                      /\ kv'[TheKey] = [payload |-> last'.data, timestamp |-> now]
           /\ r2On => /\ TheKey \in DOMAIN r2'
                      /\ r2'[TheKey] = [payload |-> last'.data, timestamp |-> now]
      /\ (Gets /\ Effective(last'.faults) = {} /\ kvOn /\ ~r2On) =>
           /\ last'.hit <=> ~HotGone
           /\ last'.hit => (last'.source = "hot" /\ last'.data = kv[TheKey].payload)
      /\ (Gets /\ Effective(last'.faults) = {} /\ ~kvOn /\ r2On) =>
           /\ last'.hit <=> ~ColdGone
           /\ last'.hit => (last'.source = "cold" /\ last'.data = r2[TheKey].payload)
      /\ ((Gets \/ Executes) /\ ~kvOn /\ ~r2On) => ~last'.hit
    ]_vars

DegradedModeWitness ==
  /\ ~kvOn /\ r2On
  /\ last.op = "get"
  /\ last.after = "stored"
  /\ last.faults = {"kv.put"}
  /\ last.hit
  /\ last.source = "cold"
  /\ kv = NoEntries
  /\ ColdAge = hotTTL + 1


\* C20: a result is served from the cache only while it is younger than the
\* per-tool TTL getSmartTTL gives for its tool (at some hour of the day): a
\* get_live_game result is not served 5 seconds or more after it was written.
ServedWithinSmartTTL ==
  (last.op = "get" /\ last.hit) =>
    \E hour \in Hours : last.age < getSmartTTL(last.tool, hour)

\* ------------------------------------------------------------------------
\* Properties of extractToolCalls (SpecExtract)
\* ------------------------------------------------------------------------
Extracted == probe.fn = "extractToolCalls" /\ probe.done

\* positions of the calls of one tool, of the resolver calls, of the data calls
CallsOf(name) == {n \in 1..Len(probe.out) : probe.out[n].name = name}

ResolverCalls == {n \in 1..Len(probe.out) : probe.out[n].name \in ResolverTools}

DataCalls == {n \in 1..Len(probe.out) : probe.out[n].name \notin ResolverTools}

\* the first team (player) pattern, in declaration order, that the text contains
FirstTeam ==
  IF "yankees" \in probe.text THEN "yankees" ELSE "dodgers"

FirstPlayer ==
  IF "judge" \in probe.text THEN "judge" ELSE "ohtani"

SomeTeam == "yankees" \in probe.text \/ "dodgers" \in probe.text

SomePlayer == "judge" \in probe.text \/ "ohtani" \in probe.text

\* C21: for a text with a known team name and a roster keyphrase, with
\* resolve_team and get_team_roster declared and no player resolver triggered,
\* extract returns exactly resolve_team({name: first team matched}) followed
\* by get_team_roster({}): the resolver call comes first.
TeamRosterExtraction ==
  ( /\ Extracted
    /\ SomeTeam
    /\ "roster" \in probe.text
    /\ Declares(probe.tools, "resolve_team")
    /\ Declares(probe.tools, "get_team_roster")
    /\ ~(SomePlayer /\ Declares(probe.tools, "resolve_player")) ) =>
    probe.out = <<Call("resolve_team", OneArg("name", FirstTeam)),
                  Call("get_team_roster", NoArgs)>>

TeamRosterExtractionWitness ==
  /\ Extracted
  /\ probe.text = {"yankees", "dodgers", "roster"}
  /\ Len(probe.tools) = 2
  /\ Declares(probe.tools, "resolve_team")
  /\ Declares(probe.tools, "get_team_roster")
  /\ probe.out = <<Call("resolve_team", OneArg("name", "yankees")),
                   Call("get_team_roster", NoArgs)>>

\* C22: the list extract returns holds at most one resolve_team call and at
\* most one resolve_player call, and each resolver call carries the single
\* argument name, equal to the first pattern of its entity type that occurs in
\* the text, whether the primary pass or the fallback produced it.
ResolverCallsNamed ==
  Extracted =>
    /\ Cardinality(CallsOf("resolve_team")) <= 1
    /\ Cardinality(CallsOf("resolve_player")) <= 1
    /\ \A n \in CallsOf("resolve_team") :
         SomeTeam /\ probe.out[n].arguments = OneArg("name", FirstTeam)
    /\ \A n \in CallsOf("resolve_player") :
         SomePlayer /\ probe.out[n].arguments = OneArg("name", FirstPlayer)

\* an intent keyphrase occurs in the text and its data tool is declared
RosterAsked == "roster" \in probe.text /\ Declares(probe.tools, "get_team_roster")

InfoAsked == "info" \in probe.text /\ Declares(probe.tools, "get_team_info")

StatsAsked == "stats" \in probe.text /\ Declares(probe.tools, "get_player_stats")

\* the data call the priority roster > info > stats selects
PriorityChoice(n) ==
  /\ RosterAsked => probe.out[n].name = "get_team_roster"
  /\ (~RosterAsked /\ InfoAsked) => probe.out[n].name = "get_team_info"
  /\ probe.out[n].name = "get_team_roster" => RosterAsked
  /\ probe.out[n].name = "get_team_info" => InfoAsked
  /\ probe.out[n].name = "get_player_stats" => StatsAsked

\* C23 as stated: for every input the list extract returns holds at most one
\* data-tool call, the one selected by the priority roster > info > stats.
AtMostOneDataCall ==
  Extracted =>
    /\ Cardinality(DataCalls) <= 1
    /\ \A n \in DataCalls : PriorityChoice(n)

\* the primary pass produced at least one call
PrimaryProduced == Len(PrimaryCalls(probe.text, probe.tools)) > 0

\* C23 amended: when the primary pass produces a call, the list holds at most
\* one data-tool call, with empty arguments, selected by the priority roster >
\* info > stats among the intents whose keyphrase occurs and whose tool is
\* declared (when roster or info is asked for, that call is present); only
\* the fallback, which runs when the primary pass produced nothing, can
\* return several data-tool calls.
AtMostOnePrimaryDataCall ==
  (Extracted /\ PrimaryProduced) =>
    /\ Cardinality(DataCalls) <= 1
    /\ \A n \in DataCalls : PriorityChoice(n) /\ probe.out[n].arguments = NoArgs
    /\ (RosterAsked \/ InfoAsked) => DataCalls # {}

AtMostOnePrimaryDataCallWitness ==
  /\ Extracted
  /\ probe.text = {"dodgers", "roster", "info", "stats"}
  /\ Len(probe.tools) = 5
  /\ RosterAsked /\ InfoAsked /\ StatsAsked
  /\ Cardinality(DataCalls) = 1
  /\ probe.out[2] = Call("get_team_roster", NoArgs)

\* exactly one call of the tool, with empty arguments
OneEmptyCall(name) ==
  /\ Cardinality(CallsOf(name)) = 1
  /\ \A n \in CallsOf(name) : probe.out[n].arguments = NoArgs

\* C24: whenever an intent keyphrase occurs in the text and its data tool is
\* declared, extract emits exactly one call of that tool (the one the
\* priority roster > info > stats selects) with empty arguments, whether or
\* not a team or a player was matched.
IntentIndependentOfEntity ==
  Extracted =>
    /\ RosterAsked => OneEmptyCall("get_team_roster")
    /\ (~RosterAsked /\ InfoAsked) => OneEmptyCall("get_team_info")
    /\ (~RosterAsked /\ ~InfoAsked /\ StatsAsked) => OneEmptyCall("get_player_stats")

\* ------------------------------------------------------------------------
\* Properties of the usage block
\* ------------------------------------------------------------------------
Responded == probe.fn = "usage" /\ probe.done

\* the least k with 4k >= n
CeilQuarter(n) == CHOOSE k \in 0..n : 4 * k >= n /\ 4 * (k - 1) < n

SerialisedLen ==
  probe.inputLen + probe.escapes
    + (IF probe.continuation THEN 2
       ELSE IF probe.memories = "empty" THEN 266 ELSE 30)

Handled == probe.fn = "handleRequest" /\ probe.done

\* C26: a request to a non-public path is given to its handler only when
\* validateRequest accepts it, outside development validateRequest accepts
\* only a Bearer or API-Key token that is one of the configured keys, and no
\* tool is executed for a request validateRequest did not accept.
AccessControlled ==
  Handled =>
    /\ probe.handler \in ToolHandlers => validateRequest(probe)
    /\ (probe.environment # "development" /\ probe.path \notin publicPaths
          /\ validateRequest(probe))
         => /\ probe.header.scheme \in {"Bearer", "API-Key"}
            /\ probe.header.token \in probe.keys
    /\ probe.toolsRun => validateRequest(probe)

\* C27: a get that reports source cold leaves the cold tier as it was, leaves
\* in a configured hot tier an entry with the cold payload stamped with the
\* time of the get, and reports the payload with the age of the cold entry.
ColdHitFrame ==
  [][ (Gets /\ last'.source = "cold") =>
        /\ TheKey \in DOMAIN r2
        /\ r2' = r2
        /\ last'.data = r2[TheKey].payload
        /\ last'.age = now - r2[TheKey].timestamp
        /\ kvOn => /\ TheKey \in DOMAIN kv'
                   /\ kv'[TheKey] = [payload |-> r2[TheKey].payload, timestamp |-> now]
        /\ ~kvOn => kv' = kv
    ]_vars

ColdHitFrameWitness ==
  /\ kvOn /\ r2On
  /\ last.op = "get"
  /\ last.source = "cold"
  /\ TheKey \in DOMAIN kv /\ TheKey \in DOMAIN r2
  /\ HotAge = 0
  /\ ColdAge = hotTTL + 1
  /\ last.age = ColdAge
  /\ kv[TheKey].payload = r2[TheKey].payload

\* ------------------------------------------------------------------------
\* Properties of getSmartTTL
\* ------------------------------------------------------------------------
\* the base TTL of the six data tools
BaseTable ==
  [get_team_info |-> 300, get_player_stats |-> 60, get_team_roster |-> 3600,
   get_schedule |-> 30, get_standings |-> 60, get_live_game |-> 5]

BaseOf(tool) == IF tool \in DOMAIN BaseTable THEN BaseTable[tool] ELSE 60

LiveWindow == (13..16) \cup (19..22)

ExecutedArgs(idx) ==
  (CHOOSE e \in {executed[k] : k \in DOMAIN executed} : e.idx = idx).args

\* C29: the enriched flag of a successful result of the second loop is true
\* exactly when the arguments the call was executed with differ from the
\* call's own arguments.
EnrichedFlagTellsChange ==
  \A k \in DOMAIN results :
    (results[k].success /\ ~IsResolver(results[k].tool)) =>
      (results[k].enriched = "true"
         <=> ExecutedArgs(results[k].idx) # toolCalls[results[k].idx].arguments)

\* ------------------------------------------------------------------------
\* Properties of the resolver map
\* ------------------------------------------------------------------------
EntityTypes == {"team", "player"}

Sequencing == probe.fn = "processToolCalls"

\* the calls whose execution has started, has ended
ExecStarted == {probe.log[k].idx : k \in {j \in DOMAIN probe.log : probe.log[j].ev = "start"}}

ExecEnded == {probe.log[k].idx : k \in {j \in DOMAIN probe.log : probe.log[j].ev = "end"}}

ResolverPositions == {k \in DOMAIN probe.calls : IsResolver(probe.calls[k].name)}

\* C31: during a run at most one execution is between its start and its end,
\* and once the execution of a non-resolver call has started the execution of
\* every resolver call of the list has ended.
OneExecutionAtATime ==
  Sequencing =>
    /\ Cardinality(ExecStarted \ ExecEnded) <= 1
    /\ Cardinality(DOMAIN probe.running) <= 1
    /\ (ExecStarted \ ResolverPositions # {}) => ResolverPositions \subseteq ExecEnded

\* a resolver has run to its end and the call after it is at its cache write
OneExecutionAtATimeWitness ==
  /\ Sequencing
  /\ Len(probe.calls) = 2
  /\ IsResolver(probe.calls[2].name)
  /\ ~IsResolver(probe.calls[1].name)
  /\ ExecEnded = {2}
  /\ ExecStarted = {1, 2}
  /\ probe.running = [k \in {1} |-> "write"]

\* ------------------------------------------------------------------------
\* Properties of tool routing
\* ------------------------------------------------------------------------
Routed == IF probe.fn = "route" THEN DOMAIN probe.out ELSE {}

BothSet == probe.fn = "race" /\ \A x \in Writers : probe.w[x].pc = "done"

\* the writer whose write to a tier came last
LastWriter(tier) ==
  LET at == {k \in DOMAIN probe.order : probe.order[k].tier = tier}
  IN  probe.order[CHOOSE k \in at : \A j \in at : j <= k].writer

\* C33 as stated: once two concurrent sets of different payloads for one key
\* have both finished, the hot tier and the cold tier hold the same payload.
TiersAgreeAfterRace ==
  BothSet => kv[RaceKey].payload = r2[RaceKey].payload

\* C33 amended: once both sets have finished, each tier holds the payload of
\* the set whose write to that tier came last, so the two tiers hold the same
\* payload exactly when the same set wrote last to both.
LastWriteWinsPerTier ==
  BothSet =>
    /\ kv[RaceKey].payload = probe.w[LastWriter("hot")].data
    /\ r2[RaceKey].payload = probe.w[LastWriter("cold")].data
    /\ (kv[RaceKey].payload = r2[RaceKey].payload)
         <=> (LastWriter("hot") = LastWriter("cold"))

\* A wrote hot, B wrote hot and cold, then A wrote cold: hot holds B's
\* payload and cold holds A's
LastWriteWinsPerTierWitness ==
  /\ BothSet
  /\ LastWriter("hot") = "B"
  /\ LastWriter("cold") = "A"
  /\ kv[RaceKey].payload = probe.w["B"].data
  /\ r2[RaceKey].payload = probe.w["A"].data

\* ------------------------------------------------------------------------
\* Properties of staleness
\* ------------------------------------------------------------------------
\* C34: a payload get returns was handed to a set no more than
\* coldTTL + hotTTL seconds before the get (a payload from the cold tier less
\* than coldTTL seconds before), and the time the cold entry carries is the
\* time of its set, which no get changes.
StalenessBound ==
  probe.fn = "stale" =>
    /\ probe.got.hit => now - probe.got.origin <= coldTTL + hotTTL
    /\ (probe.got.hit /\ probe.got.source = "cold") => now - probe.got.origin < coldTTL
    /\ RaceKey \in DOMAIN r2 => r2[RaceKey].timestamp = probe.coldOrigin

\* a get answered from the hot tier with a payload set more than coldTTL
\* seconds ago: it was promoted when the cold entry was coldTTL - 1 old
StalenessBoundWitness ==
  /\ probe.fn = "stale"
  /\ probe.got.hit
  /\ probe.got.source = "hot"
  /\ now - probe.got.origin = coldTTL + hotTTL - 2
  /\ now - kv[RaceKey].timestamp = hotTTL - 1

\* ------------------------------------------------------------------------
\* Properties of the two modes
\* ------------------------------------------------------------------------
\* C35: for one call list and one backend, the streaming mode issues the same
\* sequence of tool executions, names and arguments, as processToolCalls.
ModesExecuteAlike ==
  (probe.fn = "modes" /\ probe.done) => probe.streamed = probe.plain

\* ------------------------------------------------------------------------
\* Properties of extraction under memories
\* ------------------------------------------------------------------------
\* C36: the call list extracted for a request is the one extracted for the
\* same input and tools without memories.
MemoriesDoNotSteerExtraction ==
  (probe.fn = "memories" /\ probe.done) => probe.out = probe.bare

\* ------------------------------------------------------------------------
\* Properties of key derivation on pairs of calls
\* ------------------------------------------------------------------------
\* C37: two calls that differ in the tool name, in an argument key or in an
\* argument value derive different cache keys.
KeysInjective ==
  (probe.fn = "keys" /\ probe.done) =>
    ((probe.toolA # probe.toolB \/ probe.a.val # probe.b.val) => probe.keyA # probe.keyB)

\* the run of the legacy SSE processor has ended
SSEDone == probe.fn = "processSSERequest" /\ probe.pos = "done"

\* the number of events of the given name the run has emitted
SSECount(name) == Cardinality({k \in DOMAIN probe.events : probe.events[k] = name})

\* C38: the legacy SSE processor closes its writer exactly once on every
\* path (cache hit, live success, tool error, exception): a finished run has
\* called writer.close() once
ClosesExactlyOnce == SSEDone => probe.closeCalls = 1

\* C39: in the legacy SSE processor no complete event follows an error
\* event, and a finished run has emitted exactly one terminal event (error or
\* complete)
OneTerminalEvent ==
  /\ probe.fn = "processSSERequest" =>
       \A j, k \in DOMAIN probe.events :
          (j < k /\ probe.events[j] = "error") => probe.events[k] # "complete"
  /\ SSEDone => SSECount("error") + SSECount("complete") = 1

\* a request of the RateLimiter run has been answered
Answered == probe.fn = "RateLimiter" /\ probe.answer.status # 0

\* C40: RateLimiter, one key, fixed limit >= 1 and window, one request at a
\* time: the requests answered allowed:true since the last window reset never
\* exceed limit; a request is answered 429 exactly when its window had not
\* expired and the stored count was at least limit; remaining is never negative
RateLimited ==
  Answered =>
    /\ probe.allowedInWindow <= probe.limit
    /\ (probe.answer.status = 429) <=>
         (/\ ~(probe.answer.reset < probe.answer.time - probe.window)
          /\ probe.answer.count >= probe.limit)
    /\ probe.answer.allowed <=> (probe.answer.status # 429)
    /\ probe.answer.remaining >= 0

\* a request refused in a window that follows an earlier window, with a limit
\* that lets more than one request through
RateLimitedWitness ==
  /\ Answered
  /\ probe.resets >= 2
  /\ probe.limit >= 2
  /\ probe.answer.status = 429
  /\ probe.allowedInWindow = probe.limit

====
